---------------------------- MODULE Spec2Model ----------------------------
(***************************************************************************)
(* A model of the validation and loading engine of cmi-pb-terminology:     *)
(* cmi_pb_script/load.py (chunked bulk load, routing of rows to the main   *)
(* or the conflict table, post-load patches, update_row, insert_new_row,   *)
(* the table dependency sort) and cmi_pb_script/validate.py (the cell and  *)
(* row validators).                                                        *)
(*                                                                         *)
(* Cell values are atomic tokens.  A cell is the Python dict               *)
(*   {"value", "valid", "messages", "nulltype"?}                           *)
(* with nulltype = NoNulltype when the key is absent, and a message is     *)
(* represented by its "rule" tag.  A stored cell is the pair of the typed  *)
(* column and its _meta sibling; NULL is SQL NULL / Python None.           *)
(***************************************************************************)
EXTENDS Integers, Sequences, FiniteSets, TLC

VARIABLES
    input,          \* the rows of the TSV file of the table being loaded
    chunk_number,   \* the chunk validate_and_insert_chunks is working on
    intra_results,  \* the intra-validated rows of the current chunk
    db,             \* the connection's view of the tables: [main, conflict]
    committed,      \* what the last commit() made durable
    pc,             \* where load_db stands
    log,            \* the persistence steps so far: chunk, path, rows, inserts
    nops,           \* the number of update_row / insert_new_row calls so far
    last_op,        \* the last update_row / insert_new_row call
    origin,         \* the raw row behind each main row written by such a call
    constraints,    \* the foreign, under and tree constraints of the tables
    sort_result,    \* what verify_table_deps_and_sort returned or raised
    loaded,         \* the tables load_db has loaded, in order
    schema,         \* the scripts configure_db has executed, in order
    structure_errors, \* the tables for which create_table raises ConfigError
    num_cpus,       \* the worker processes run at a time (0: no multiprocessing)
    procs,          \* the state of the worker process of each chunk
    results,        \* the manager's dictionary, in insertion order
    proc_block,     \* the number of the block of processes at hand
    proc_block_results, \* the results of the block still to be persisted
    finished        \* the chunks in the order their workers finished

vars == <<input, chunk_number, intra_results, db, committed, pc, log,
          nops, last_op, origin, constraints, sort_result, loaded,
          schema, structure_errors,
          num_cpus, procs, results, proc_block, proc_block_results, finished>>

mp_vars == <<num_cpus, procs, results, proc_block, proc_block_results,
             finished>>

sort_vars == <<constraints, sort_result, loaded, schema, structure_errors>>

load_vars == <<input, chunk_number, intra_results, log>>

op_vars == <<nops, last_op, origin>>

-----------------------------------------------------------------------------
(* Bounds of the model *)

MaxRows == 3

\* the rows of the file when row calls follow the load, and the calls made
MaxRowsOps == 2

MaxOps == 1

\* the foreign keys one table may have when the tables are sorted
MaxDeps == 1

\* the rows of the file and the worker processes when multiprocessing is on
MaxRowsMP == 5

MaxCpus == 3

CHUNK_SIZE == 2

NULL == "NULL"

NoNulltype == "none"

\* row_number=None, the default of validate_row
NoRowNumber == 0

-----------------------------------------------------------------------------
(* Generic helpers *)

Range(s) == {s[i] : i \in DOMAIN s}

Min(a, b) == IF a <= b THEN a ELSE b

SeqsUpTo(S, n) == UNION {[1..k -> S] : k \in 0..n}

RECURSIVE SetToSeq(_)
SetToSeq(S) ==
    IF S = {} THEN <<>>
    ELSE LET x == CHOOSE y \in S : TRUE IN <<x>> \o SetToSeq(S \ {x})

-----------------------------------------------------------------------------
(* The configuration: the table of the test suite (foobar), with a tree,   *)
(* an under constraint, a foreign key and one rule.                        *)

table_name == "foobar"

column_names == <<"child", "parent", "xyzzy", "src">>

Cols == Range(column_names)

\* config["table"][table]["column"]: the nulltype and datatype of each column
column_config ==
    [child  |-> [nulltype |-> NULL,    datatype |-> "word"],
     parent |-> [nulltype |-> "empty", datatype |-> "label"],
     xyzzy  |-> [nulltype |-> NULL,    datatype |-> "word"],
     src    |-> [nulltype |-> NULL,    datatype |-> "word"]]

\* config["datatype"]: parent and condition of each datatype
datatype_config ==
    [text  |-> [parent |-> NULL,   condition |-> NULL,
                description |-> "any text"],
     empty |-> [parent |-> "text", condition |-> "equals('')",
                description |-> "the empty string"],
     line  |-> [parent |-> "text", condition |-> "exclude(/\\n/)",
                description |-> "one line of text"],
     word  |-> [parent |-> "line", condition |-> "exclude(/\\W/)",
                description |-> "a single word"],
     label |-> [parent |-> "word", condition |-> "match(/\\w+/)",
                description |-> ""]]

\* The values of the model that hold a newline, and a non-word character
NewlineValues == {"x\ny"}

NonWordValues == {"!"} \cup NewlineValues

\* compile_condition: the predicate a condition compiles to
compiled_condition(condition, value) ==
    CASE condition = "equals('')"     -> value = ""
      [] condition = "equals('a')"    -> value = "a"
      [] condition = "exclude(/\\n/)" -> value \notin NewlineValues
      [] condition = "exclude(/\\W/)" -> value \notin NonWordValues
      [] condition = "match(/\\w+/)"  -> value \notin NonWordValues \cup {""}
      [] OTHER -> FALSE

\* config["constraints"] as create_table registers them for the table
primary == <<"child">>

unique == <<>>

tree == <<[child |-> "child", parent |-> "parent"]>>

foreign == <<[column |-> "src", ftable |-> "prefix", fcolumn |-> "prefix"]>>

under == <<[column |-> "xyzzy", ttable |-> "foobar", tcolumn |-> "child", value |-> "b"]>>

\* config["rule"][table]: the rules, keyed by their when column
rule ==
    <<[when_column |-> "parent", when_condition |-> "null",
       then_column |-> "xyzzy", then_condition |-> "equals('a')",
       level |-> "error"]>>

\* The rows of the foreign table prefix(prefix), loaded before this table
prefix_rows == {"p"}

-----------------------------------------------------------------------------
(* Cells and the intra-row validators (validate.py) *)

\* The cell validate_rows_intra builds for a raw value
new_cell(value) ==
    [value |-> value, valid |-> TRUE, nulltype |-> NoNulltype, messages |-> <<>>]

add_message(cell, tag) ==
    [cell EXCEPT !.valid = FALSE, !.messages = Append(@, tag)]

validate_cell_nulltype(column_name, cell) ==
    LET column == column_config[column_name] IN
    IF column.nulltype # NULL
       /\ compiled_condition(datatype_config[column.nulltype].condition, cell.value)
    THEN [cell EXCEPT !.nulltype = column.nulltype]
    ELSE cell

\* check_condition of validate_cell_rules
check_condition(condition, cell) ==
    IF condition \in {"null", "not null"}
    THEN \/ condition = "null" /\ cell.nulltype # NoNulltype
         \/ condition = "not null" /\ cell.nulltype = NoNulltype
    ELSE compiled_condition(condition, cell.value)

RECURSIVE apply_rules(_, _, _, _, _)
apply_rules(applicable_rules, rule_number, column_name, context, cell) ==
    IF rule_number > Len(applicable_rules) THEN cell
    ELSE LET r == applicable_rules[rule_number]
             failed == /\ check_condition(r.when_condition, cell)
                       /\ ~check_condition(r.then_condition, context[r.then_column])
             next == IF failed
                     THEN add_message(cell, "rule:" \o column_name \o "-"
                                            \o ToString(rule_number))
                     ELSE cell
         IN apply_rules(applicable_rules, rule_number + 1, column_name, context, next)

\* validate_cell_rules: the rules whose when column is this column, applied
\* to this cell (validate_cell_rules_none: no rule is applied)
validate_cell_rules_none(column_name, context, cell) == cell
validate_cell_rules(column_name, context, cell) ==
    apply_rules(SelectSeq(rule, LAMBDA r : r.when_column = column_name),
                1, column_name, context, cell)

\* get_datatypes_to_check: the ancestors with a condition, nearest first
RECURSIVE get_datatypes_to_check(_, _)
get_datatypes_to_check(dt_name, primary_dt_name) ==
    IF dt_name = NULL THEN <<>>
    ELSE LET dt == datatype_config[dt_name]
             here == IF dt_name # primary_dt_name /\ dt.condition # NULL
                     THEN <<dt_name>> ELSE <<>>
         IN here \o get_datatypes_to_check(dt.parent, primary_dt_name)

\* the while/pop loop: the most general ancestor is checked first
RECURSIVE check_parent_datatypes(_, _)
check_parent_datatypes(parent_datatypes, cell) ==
    IF parent_datatypes = <<>> THEN cell
    ELSE LET n == Len(parent_datatypes)
             dt_name == parent_datatypes[n]
             next == IF ~compiled_condition(datatype_config[dt_name].condition,
                                            cell.value)
                     THEN [cell EXCEPT !.messages =
                               Append(@, "datatype:" \o dt_name)]
                     ELSE cell
         IN check_parent_datatypes(SubSeq(parent_datatypes, 1, n - 1), next)

Reverse(s) == [i \in 1..Len(s) |-> s[Len(s) + 1 - i]]

\* validate_cell_datatype: the primary datatype decides, the ancestors and the
\* primary datatype explain (validate_cell_datatype_nearest_first: the
\* ancestors are checked from the nearest to the most general)
validate_cell_datatype_nearest_first(column_name, cell) ==
    LET primary_dt_name == column_config[column_name].datatype
        primary_datatype == datatype_config[primary_dt_name]
    IN IF primary_datatype.condition # NULL
          /\ ~compiled_condition(primary_datatype.condition, cell.value)
       THEN LET inv == [cell EXCEPT !.valid = FALSE]
                anc == check_parent_datatypes(
                           Reverse(get_datatypes_to_check(primary_dt_name,
                                                          primary_dt_name)),
                           inv)
            IN IF primary_datatype.description # ""
               THEN [anc EXCEPT !.messages =
                         Append(@, "datatype:" \o primary_dt_name)]
               ELSE anc
       ELSE cell
validate_cell_datatype(column_name, cell) ==
    LET primary_dt_name == column_config[column_name].datatype
        primary_datatype == datatype_config[primary_dt_name]
    IN IF primary_datatype.condition # NULL
          /\ ~compiled_condition(primary_datatype.condition, cell.value)
       THEN LET inv == [cell EXCEPT !.valid = FALSE]
                anc == check_parent_datatypes(
                           get_datatypes_to_check(primary_dt_name, primary_dt_name),
                           inv)
            IN IF primary_datatype.description # ""
               THEN [anc EXCEPT !.messages =
                         Append(@, "datatype:" \o primary_dt_name)]
               ELSE anc
       ELSE cell

\* One row of validate_rows_intra: nulltype for all cells first, then rules
\* and (when no nulltype) the datatype.
\* (validate_row_intra_always_datatype: the datatype whatever the nulltype)
validate_row_intra_always_datatype(raw) ==
    LET with_nulltype == [c \in Cols |->
                             validate_cell_nulltype(c, new_cell(raw[c]))]
    IN [c \in Cols |->
           validate_cell_datatype(
               c, validate_cell_rules(c, with_nulltype, with_nulltype[c]))]
validate_row_intra(raw) ==
    LET with_nulltype == [c \in Cols |->
                             validate_cell_nulltype(c, new_cell(raw[c]))]
    IN [c \in Cols |->
           LET ruled == validate_cell_rules(c, with_nulltype, with_nulltype[c])
           IN IF ruled.nulltype = NoNulltype
              THEN validate_cell_datatype(c, ruled)
              ELSE ruled]

validate_rows_intra(rows) ==
    [i \in 1..Len(rows) |-> validate_row_intra(rows[i])]

-----------------------------------------------------------------------------
(* The stored form of a cell and the tables *)

\* the _meta column: SQL NULL, or the JSON of the cell
NullMeta ==
    [null |-> TRUE, valid |-> TRUE, nulltype |-> NoNulltype,
     messages |-> <<>>, value |-> NULL]

\* the meta the post-load checks assume for a NULL _meta column
DefaultMeta ==
    [null |-> FALSE, valid |-> TRUE, nulltype |-> NoNulltype,
     messages |-> <<>>, value |-> NULL]

EmptyDb == [main |-> {}, conflict |-> {}]

\* SELECT child, parent FROM table
table_pairs(rows, tkey) ==
    {<<r.cells[tkey.child].value, r.cells[tkey.parent].value>> : r \in rows}

-----------------------------------------------------------------------------
(* with_tree_sql: the recursive query that walks from root to its ancestors *)

tree_step(pairs, S) ==
    S \cup {p \in pairs : \E q \in S : q[2] # NULL /\ p[1] # NULL /\ q[2] = p[1]}

RECURSIVE tree_closure(_, _)
tree_closure(pairs, S) ==
    LET N == tree_step(pairs, S)
    IN IF N = S THEN S ELSE tree_closure(pairs, N)

\* the rows of the sub-tree query
with_tree_sql(pairs, root) ==
    tree_closure(pairs, {p \in pairs : p[1] # NULL /\ p[1] = root})

\* UNION ALL: the recursion never ends when a row it reaches lies on a cycle
with_tree_hangs(pairs, root) ==
    \E p \in with_tree_sql(pairs, root) :
        p \in tree_closure(pairs, tree_step(pairs, {p}) \ {p})
        \/ (p[2] # NULL /\ p[1] = p[2])

-----------------------------------------------------------------------------
(* Tree validation (validate_rows_trees, validate_cell_trees) *)

\* the rows of the chunk already validated, as SELECT :c_value, :p_value;
\* prev_selects_none leaves the earlier rows of the chunk out of the query
prev_selects_none(prev_results, tkey) == {}

prev_selects(prev_results, tkey) ==
    {<<prev_results[i][tkey.child].value, prev_results[i][tkey.parent].value>> :
        i \in {j \in DOMAIN prev_results :
                  /\ prev_results[j][tkey.child].valid
                  /\ prev_results[j][tkey.parent].valid}}

RECURSIVE check_tkeys(_, _, _, _, _, _)
check_tkeys(T, tkeys, n, cell, context, prev_results) ==
    IF n > Len(tkeys) THEN [hung |-> FALSE, cell |-> cell]
    ELSE LET tkey == tkeys[n]
             parent_val == cell.value
             child_val == context[tkey.child].value
             pairs == table_pairs(T, tkey) \cup prev_selects(prev_results, tkey)
             rows == with_tree_sql(pairs, parent_val)
             next == IF \E row \in rows : row[2] = child_val
                     THEN add_message(cell, "tree:cycle")
                     ELSE cell
         IN IF with_tree_hangs(pairs, parent_val)
            THEN [hung |-> TRUE, cell |-> cell]
            ELSE check_tkeys(T, tkeys, n + 1, next, context, prev_results)

validate_cell_trees(T, column_name, cell, context, prev_results) ==
    check_tkeys(T, SelectSeq(tree, LAMBDA tkey : tkey.parent = column_name),
                1, cell, context, prev_results)

validate_row_trees(T, row, result_rows) ==
    LET res == [c \in Cols |->
                   IF row[c].nulltype = NoNulltype
                   THEN validate_cell_trees(T, c, row[c], row, result_rows)
                   ELSE [hung |-> FALSE, cell |-> row[c]]]
    IN [hung |-> \E c \in Cols : res[c].hung,
        row |-> [c \in Cols |-> res[c].cell]]

RECURSIVE validate_rows_trees_from(_, _, _, _)
validate_rows_trees_from(T, rows, i, result_rows) ==
    IF i > Len(rows) THEN [hung |-> FALSE, rows |-> result_rows]
    ELSE LET r == validate_row_trees(T, rows[i], result_rows)
         IN IF r.hung THEN [hung |-> TRUE, rows |-> result_rows]
            ELSE validate_rows_trees_from(T, rows, i + 1, Append(result_rows, r.row))

validate_rows_trees(T, rows) == validate_rows_trees_from(T, rows, 1, <<>>)

-----------------------------------------------------------------------------
(* Foreign and unique validation (validate_rows_constraints) *)

\* SELECT 1 FROM ftable WHERE fcolumn = :value
foreign_rows(fkey, value) ==
    IF fkey.ftable = "prefix" THEN {v \in prefix_rows : v = value} ELSE {}

RECURSIVE check_fkeys(_, _, _)
check_fkeys(fkeys, n, cell) ==
    IF n > Len(fkeys) THEN cell
    ELSE check_fkeys(fkeys, n + 1,
                     IF foreign_rows(fkeys[n], cell.value) = {}
                     THEN add_message(cell, "key:foreign")
                     ELSE cell)

validate_cell_foreign_constraints(column_name, cell) ==
    check_fkeys(SelectSeq(foreign, LAMBDA fkey : fkey.column = column_name), 1, cell)

\* validate_unique_constraints when the table is not queried for the value
validate_unique_constraints_chunk_only(T, column_name, cell, prev_results, existing_row, row_number) ==
    LET is_primary == column_name \in Range(primary)
        is_unique == IF is_primary THEN FALSE ELSE column_name \in Range(unique)
        is_tree_child == \E i \in DOMAIN tree : tree[i].child = column_name
        in_prev == \E i \in DOMAIN prev_results :
                      /\ prev_results[i][column_name].value = cell.value
                      /\ prev_results[i][column_name].valid
        keyed == IF is_primary \/ is_unique
                 THEN add_message(cell, IF is_primary THEN "key:primary"
                                                      ELSE "key:unique")
                 ELSE [cell EXCEPT !.valid = FALSE]
    IN IF (is_primary \/ is_unique \/ is_tree_child) /\ in_prev
       THEN IF is_tree_child THEN add_message(keyed, "tree:child-unique") ELSE keyed
       ELSE cell

validate_unique_constraints(T, column_name, cell, prev_results, existing_row, row_number) ==
    LET is_primary == column_name \in Range(primary)
        is_unique == IF is_primary THEN FALSE ELSE column_name \in Range(unique)
        is_tree_child == \E i \in DOMAIN tree : tree[i].child = column_name
        \* WHERE row_number <> :value selects nothing when :value is NULL
        query_table == IF existing_row
                       THEN {r \in T : row_number # NoRowNumber /\ r.row_number # row_number}
                       ELSE T
        in_prev == \E i \in DOMAIN prev_results :
                      /\ prev_results[i][column_name].value = cell.value
                      /\ prev_results[i][column_name].valid
        in_db == \E r \in query_table : r.cells[column_name].value = cell.value
        keyed == IF is_primary \/ is_unique
                 THEN add_message(cell, IF is_primary THEN "key:primary"
                                                      ELSE "key:unique")
                 ELSE [cell EXCEPT !.valid = FALSE]
    IN IF (is_primary \/ is_unique \/ is_tree_child) /\ (in_prev \/ in_db)
       THEN IF is_tree_child THEN add_message(keyed, "tree:child-unique") ELSE keyed
       ELSE cell

validate_row_constraints(T, row, result_rows) ==
    [c \in Cols |->
        IF row[c].nulltype = NoNulltype
        THEN validate_unique_constraints(
                 T, c, validate_cell_foreign_constraints(c, row[c]),
                 result_rows, FALSE, NoRowNumber)
        ELSE row[c]]

RECURSIVE validate_rows_constraints_from(_, _, _, _)
validate_rows_constraints_from(T, rows, i, result_rows) ==
    IF i > Len(rows) THEN result_rows
    ELSE validate_rows_constraints_from(
             T, rows, i + 1,
             Append(result_rows, validate_row_constraints(T, rows[i], result_rows)))

validate_rows_constraints(T, rows) ==
    validate_rows_constraints_from(T, rows, 1, <<>>)

-----------------------------------------------------------------------------
(* make_inserts: routing of the rows of a chunk, and the SQL values *)

\* The typed value and the meta that generate_sql, update_row and
\* insert_new_row bind for a cell (the three sites hold the same code).
\* json.dumps followed by SQLite's JSON() keeps every key of the dict, so
\* the stored meta is the cell record itself.
\* stored_cell_keeps_value: the typed column keeps the value of an invalid cell
stored_cell_keeps_value(cell) ==
    [value |-> IF cell.nulltype # NoNulltype THEN NULL ELSE cell.value,
     meta  |-> IF cell.valid /\ cell.nulltype = NoNulltype
               THEN NullMeta
               ELSE [null |-> FALSE, valid |-> cell.valid,
                     nulltype |-> cell.nulltype, messages |-> cell.messages,
                     value |-> cell.value]]

stored_cell(cell) ==
    [value |-> IF cell.nulltype # NoNulltype THEN NULL
               ELSE IF cell.valid THEN cell.value ELSE NULL,
     meta  |-> IF cell.valid /\ cell.nulltype = NoNulltype
               THEN NullMeta
               ELSE [null |-> FALSE, valid |-> cell.valid,
                     nulltype |-> cell.nulltype, messages |-> cell.messages,
                     value |-> cell.value]]

stored_row(row, row_number) ==
    [row_number |-> row_number, cells |-> [c \in Cols |-> stored_cell(row[c])]]

generate_sql(numbered) ==
    [i \in 1..Len(numbered) |-> stored_row(numbered[i].row, numbered[i].row_number)]

\* conflict_columns when no column routes a row to the conflict table
conflict_columns_none == {}

conflict_columns ==
    Range(primary) \cup Range(unique) \cup {tree[i].child : i \in DOMAIN tree}

\* has_conflict when the invalid cell of any column counts
has_conflict_any_column(row) == \E col \in Cols : ~row[col].valid

has_conflict(row) == \E col \in Cols : col \in conflict_columns /\ ~row[col].valid

\* make_inserts when the offset of a chunk is its number, not its first row
make_inserts_chunk_offset(rows, chunk_num) ==
    LET numbered == [i \in 1..Len(rows) |->
                        [row |-> rows[i], row_number |-> i + chunk_num]]
    IN [main |-> generate_sql(SelectSeq(numbered, LAMBDA x : ~has_conflict(x.row))),
        conflict |-> generate_sql(SelectSeq(numbered, LAMBDA x : has_conflict(x.row)))]

make_inserts(rows, chunk_num) ==
    LET numbered == [i \in 1..Len(rows) |->
                        [row |-> rows[i], row_number |-> i + chunk_num * CHUNK_SIZE]]
    IN [main |-> generate_sql(SelectSeq(numbered, LAMBDA x : ~has_conflict(x.row))),
        conflict |-> generate_sql(SelectSeq(numbered, LAMBDA x : has_conflict(x.row)))]

-----------------------------------------------------------------------------
(* The constraints the database enforces on the main table (create_table) *)

\* the columns with PRIMARY KEY, UNIQUE or the unique index of a tree child
unique_indexed ==
    Range(primary) \cup Range(unique) \cup {tree[i].child : i \in DOMAIN tree}

\* a multi-row INSERT into the main table is accepted
insert_accepted(T, ins) ==
    /\ \A i \in DOMAIN ins :
          /\ \A r \in T : r.row_number # ins[i].row_number
          /\ \A j \in DOMAIN ins : j # i => ins[j].row_number # ins[i].row_number
    /\ \A col \in unique_indexed : \A i \in DOMAIN ins :
          LET v == ins[i].cells[col].value
          IN v # NULL =>
                /\ \A r \in T : r.cells[col].value # v
                /\ \A j \in DOMAIN ins : j # i => ins[j].cells[col].value # v
    /\ \A k \in DOMAIN foreign : \A i \in DOMAIN ins :
          LET v == ins[i].cells[foreign[k].column].value
          IN v # NULL => foreign_rows(foreign[k], v) # {}

-----------------------------------------------------------------------------
(* validate_rows_inter_and_insert: the persistence step of one chunk *)

\* The result of the step: the new tables, whether commit() was called, and
\* how the step ended ("first": the database took the first main INSERT,
\* "fallback": the except branch ran, "hung": a tree query did not end,
\* "error": the second main INSERT raised IntegrityError).
validate_rows_inter_and_insert(dbs, intra_validated_rows, chunk_num) ==
    LET trees == validate_rows_trees(dbs.main, intra_validated_rows)
        ins1 == make_inserts(trees.rows, chunk_num)
        \* the cells are shared: the rows re-validated are the tree-validated ones
        cons == validate_rows_constraints(dbs.main, trees.rows)
        ins2 == make_inserts(cons, chunk_num)
    IN IF trees.hung
       THEN [path |-> "hung", db |-> dbs, commit |-> FALSE,
             rows |-> <<>>, inserts |-> [main |-> <<>>, conflict |-> <<>>]]
       ELSE IF insert_accepted(dbs.main, ins1.main)
       THEN [path |-> "first",
             db |-> [dbs EXCEPT !.main = @ \cup Range(ins1.main)],
             commit |-> FALSE, rows |-> trees.rows, inserts |-> ins1]
       ELSE IF insert_accepted(dbs.main, ins2.main)
       THEN [path |-> "fallback",
             db |-> [main |-> dbs.main \cup Range(ins2.main),
                     conflict |-> dbs.conflict \cup Range(ins2.conflict)],
             commit |-> TRUE, rows |-> cons, inserts |-> ins2]
       ELSE [path |-> "error", db |-> dbs, commit |-> FALSE,
             rows |-> cons, inserts |-> ins2]

-----------------------------------------------------------------------------
(* The post-load checks (validate_tree_foreign_keys, validate_under) and    *)
(* the UPDATEs of load_db                                                   *)

RECURSIVE sorted_rows(_)
sorted_rows(T) ==
    IF T = {} THEN <<>>
    ELSE LET r == CHOOSE x \in T : \A y \in T : x.row_number <= y.row_number
         IN <<r>> \o sorted_rows(T \ {r})

\* JSON(meta) of the row, or the default for a NULL meta
loaded_meta(stored) == IF stored.meta.null THEN DefaultMeta ELSE stored.meta

\* tree_foreign_reported when a NULL cell is not looked up by its meta value
tree_foreign_reported_typed(T, tkey, r) ==
    LET cell == r.cells[tkey.parent]
        meta == loaded_meta(cell)
        has_child(v) == v # NULL /\ \E t2 \in T : t2.cells[tkey.child].value = v
    IN /\ ~has_child(cell.value)
       /\ meta.nulltype = NoNulltype

tree_foreign_reported(T, tkey, r) ==
    LET cell == r.cells[tkey.parent]
        meta == loaded_meta(cell)
        parent_val == IF cell.value = NULL THEN meta.value ELSE cell.value
        has_child(v) == v # NULL /\ \E t2 \in T : t2.cells[tkey.child].value = v
    IN /\ ~has_child(cell.value)
       /\ meta.nulltype = NoNulltype
       /\ cell.value = NULL => ~has_child(parent_val)

tree_foreign_record(tkey, r) ==
    LET cell == r.cells[tkey.parent]
        meta == loaded_meta(cell)
        parent_val == IF cell.value = NULL THEN meta.value ELSE cell.value
    IN [row_number |-> r.row_number, column |-> tkey.parent,
        meta |-> [meta EXCEPT !.valid = FALSE, !.value = parent_val,
                              !.messages = Append(@, "tree:foreign")]]

RECURSIVE tree_foreign_from(_, _)
tree_foreign_from(T, n) ==
    IF n > Len(tree) THEN <<>>
    ELSE LET hit == SelectSeq(sorted_rows(T),
                        LAMBDA r : tree_foreign_reported(T, tree[n], r))
         IN [i \in 1..Len(hit) |-> tree_foreign_record(tree[n], hit[i])]
            \o tree_foreign_from(T, n + 1)

validate_tree_foreign_keys(T) == tree_foreign_from(T, 1)

\* the tree an under constraint names (the constrained table holds it)
under_tree(ukey) ==
    LET tkeys == SelectSeq(tree, LAMBDA tkey : tkey.child = ukey.tcolumn)
    IN tkeys[Len(tkeys)]

\* 1 when the typed value is in the child column of the tree table
under_in_tree(T, ukey, r) ==
    LET v == r.cells[ukey.column].value
    IN v # NULL /\ \E t \in T : t.cells[ukey.tcolumn].value = v

\* 0 when the typed value is in the parent column of the sub-tree of the root
under_is_above(T, ukey, r) ==
    LET v == r.cells[ukey.column].value
        sub == with_tree_sql(table_pairs(T, under_tree(ukey)), ukey.value)
    IN v # NULL /\ \E p \in sub : p[2] = v

under_reported(T, ukey, r) ==
    /\ loaded_meta(r.cells[ukey.column]).nulltype = NoNulltype
    /\ ~under_in_tree(T, ukey, r) \/ under_is_above(T, ukey, r)

\* under_record when the patch keeps the typed column, not the original text
under_record_typed(T, ukey, r) ==
    LET cell == r.cells[ukey.column]
        meta == loaded_meta(cell)
    IN [row_number |-> r.row_number, column |-> ukey.column,
        meta |-> [meta EXCEPT !.valid = FALSE, !.value = cell.value,
                              !.messages = Append(@,
                                  IF ~under_in_tree(T, ukey, r)
                                  THEN "under:not-in-tree"
                                  ELSE "under:not-under")]]

under_record(T, ukey, r) ==
    LET cell == r.cells[ukey.column]
        meta == loaded_meta(cell)
        column_val == IF cell.value = NULL THEN meta.value ELSE cell.value
    IN [row_number |-> r.row_number, column |-> ukey.column,
        meta |-> [meta EXCEPT !.valid = FALSE, !.value = column_val,
                              !.messages = Append(@,
                                  IF ~under_in_tree(T, ukey, r)
                                  THEN "under:not-in-tree"
                                  ELSE "under:not-under")]]

RECURSIVE under_from(_, _)
under_from(T, n) ==
    IF n > Len(under) THEN <<>>
    ELSE LET hit == SelectSeq(sorted_rows(T),
                        LAMBDA r : under_reported(T, under[n], r))
         IN [i \in 1..Len(hit) |-> under_record(T, under[n], hit[i])]
            \o under_from(T, n + 1)

validate_under(T) == under_from(T, 1)

\* the sub-tree query of some under constraint does not end
validate_under_hangs(T) ==
    \E n \in DOMAIN under :
        with_tree_hangs(table_pairs(T, under_tree(under[n])), under[n].value)

\* UPDATE table SET column = NULL, column_meta = JSON(:mval) WHERE row_number = :n
update_record(T, record) ==
    {IF r.row_number = record.row_number
     THEN [r EXCEPT !.cells[record.column] = [value |-> NULL, meta |-> record.meta]]
     ELSE r : r \in T}

RECURSIVE apply_records(_, _, _)
apply_records(T, records, n) ==
    IF n > Len(records) THEN T
    ELSE apply_records(update_record(T, records[n]), records, n + 1)

records_to_update(T) == validate_tree_foreign_keys(T) \o validate_under(T)

\* lines 529-543 of load_db for one table
post_load(T) == apply_records(T, records_to_update(T), 1)

-----------------------------------------------------------------------------
(* configure_db: the scripts that create the tables and the view of a table *)

\* DROP TABLE IF EXISTS, CREATE TABLE and CREATE UNIQUE INDEX for the table,
\* the same for its conflict table, then DROP VIEW IF EXISTS and CREATE VIEW
table_schema(t) ==
    <<[script |-> "create_table", name |-> t],
      [script |-> "create_table", name |-> t \o "_conflict"],
      [script |-> "create_view", name |-> t \o "_view"]>>

RECURSIVE configured_schema(_)
configured_schema(table_list) ==
    IF table_list = <<>> THEN <<>>
    ELSE table_schema(Head(table_list)) \o configured_schema(Tail(table_list))

-----------------------------------------------------------------------------
(* Chunking of the input (load_db) *)

NumChunks(rows) == (Len(rows) + CHUNK_SIZE - 1) \div CHUNK_SIZE

\* zip_longest pads the last chunk, filter(None, chunk) drops the padding
chunk_of(rows, k) ==
    SubSeq(rows, k * CHUNK_SIZE + 1, Min(Len(rows), (k + 1) * CHUNK_SIZE))

\* The rows a TSV file of the table may hold
InputRows ==
    {[child |-> c, parent |-> p, xyzzy |-> "a", src |-> "p"] :
        c \in {"a", "b", "!"}, p \in {"", "a", "b"}}
    \cup {[child |-> "a", parent |-> "", xyzzy |-> "!", src |-> "p"],
          [child |-> "b", parent |-> "a", xyzzy |-> "!", src |-> "p"],
          [child |-> "a", parent |-> "b", xyzzy |-> "a", src |-> "q"],
          [child |-> "c", parent |-> "d", xyzzy |-> "a", src |-> "p"]}

-----------------------------------------------------------------------------
(* validate_rows_intra applied to one chunk of rows *)

MaxRowsIntra == 2

\* The rows validate_rows_intra may be given
IntraRows ==
    {[child |-> c, parent |-> p, xyzzy |-> x, src |-> "p"] :
        c \in {"a", "!", "x\ny"}, p \in {"", "a", "!", "x\ny"},
        x \in {"a", "b", "!"}}

-----------------------------------------------------------------------------
(* The bulk load of one table, chunk by chunk, inline (MULTIPROCESSING off) *)

\* the constraints of the one table the rows are loaded into
table_constraints ==
    [foreign |-> [t \in {table_name} |-> foreign],
     under |-> [t \in {table_name} |-> under],
     tree |-> [t \in {table_name} |-> tree]]

NoSort == [status |-> "none", order |-> <<>>, cycle |-> <<>>, message |-> <<>>]

NoOp == [kind |-> "none", row_number |-> NoRowNumber, status |-> "none",
         existing_row |-> FALSE, given |-> <<>>, row |-> <<>>]

Init ==
    /\ input \in SeqsUpTo(InputRows, MaxRows)
    /\ chunk_number = 0
    /\ intra_results = <<>>
    /\ db = EmptyDb
    /\ committed = EmptyDb
    /\ pc = IF Len(input) = 0 THEN "post" ELSE "intra"
    /\ log = <<>>
    /\ nops = 0
    /\ last_op = NoOp
    /\ origin = <<>>
    /\ constraints = table_constraints
    /\ sort_result = NoSort
    /\ loaded = <<>>
    /\ schema = configured_schema(<<"prefix", table_name>>)
    /\ structure_errors = {}
    /\ num_cpus = 0
    /\ procs = <<>>
    /\ results = <<>>
    /\ proc_block = 0
    /\ proc_block_results = <<>>
    /\ finished = <<>>

\* validate_rows_intra on the next chunk of the file
ValidateRowsIntra ==
    /\ pc = "intra"
    /\ intra_results' = validate_rows_intra(chunk_of(input, chunk_number))
    /\ pc' = "inter"
    /\ UNCHANGED <<input, chunk_number, db, committed, log, op_vars, sort_vars, mp_vars>>

\* validate_rows_inter_and_insert on the intra-validated chunk
ValidateRowsInterAndInsert ==
    /\ pc = "inter"
    /\ LET res == validate_rows_inter_and_insert(db, intra_results, chunk_number)
       IN /\ db' = res.db
          /\ committed' = IF res.commit THEN res.db ELSE committed
          /\ log' = Append(log, [chunk |-> chunk_number, path |-> res.path,
                                 rows |-> res.rows, inserts |-> res.inserts])
          /\ pc' = IF res.path \in {"hung", "error"} THEN res.path
                   ELSE IF chunk_number + 1 < NumChunks(input) THEN "intra"
                   ELSE "post"
          /\ chunk_number' = IF res.path \in {"hung", "error"}
                             THEN chunk_number ELSE chunk_number + 1
    /\ intra_results' = <<>>
    /\ UNCHANGED <<input, op_vars, sort_vars, mp_vars>>

\* the post-load checks, the UPDATEs and the commit
PostLoad ==
    /\ pc = "post"
    /\ IF validate_under_hangs(db.main)
       THEN /\ pc' = "hung"
            /\ UNCHANGED <<db, committed>>
       ELSE /\ db' = [db EXCEPT !.main = post_load(db.main)]
            /\ committed' = db'
            /\ pc' = "ready"
    /\ UNCHANGED <<load_vars, op_vars, sort_vars, mp_vars>>

Next ==
    \/ ValidateRowsIntra
    \/ ValidateRowsInterAndInsert
    \/ PostLoad

Spec == Init /\ [][Next]_vars

\* validate_rows_intra on a chunk of any rows
InitIntra ==
    /\ input \in SeqsUpTo(IntraRows, Min(MaxRowsIntra, CHUNK_SIZE)) \ {<<>>}
    /\ chunk_number = 0
    /\ intra_results = <<>>
    /\ db = EmptyDb
    /\ committed = EmptyDb
    /\ pc = "intra"
    /\ log = <<>>
    /\ nops = 0
    /\ last_op = NoOp
    /\ origin = <<>>
    /\ constraints = table_constraints
    /\ sort_result = NoSort
    /\ loaded = <<>>
    /\ schema = configured_schema(<<"prefix", table_name>>)
    /\ structure_errors = {}
    /\ num_cpus = 0
    /\ procs = <<>>
    /\ results = <<>>
    /\ proc_block = 0
    /\ proc_block_results = <<>>
    /\ finished = <<>>

NextIntra == ValidateRowsIntra

SpecIntra == InitIntra /\ [][NextIntra]_vars

-----------------------------------------------------------------------------
(* validate_row, insert_new_row and update_row *)

\* validate_row_cell when the unique check takes every row for a new row
validate_row_cell_as_new(T, column_name, result_row, existing_row, row_number) ==
    LET ruled == validate_cell_rules(column_name, result_row, result_row[column_name])
        typed == validate_cell_datatype(column_name, ruled)
        treed == validate_cell_trees(T, column_name, typed, result_row, <<>>)
        keyed == validate_unique_constraints(
                     T, column_name,
                     validate_cell_foreign_constraints(column_name, treed.cell),
                     <<>>, FALSE, NoRowNumber)
    IN IF ruled.nulltype # NoNulltype THEN [hung |-> FALSE, cell |-> ruled]
       ELSE [hung |-> treed.hung, cell |-> keyed]

validate_row_cell(T, column_name, result_row, existing_row, row_number) ==
    LET ruled == validate_cell_rules(column_name, result_row, result_row[column_name])
        typed == validate_cell_datatype(column_name, ruled)
        treed == validate_cell_trees(T, column_name, typed, result_row, <<>>)
        keyed == validate_unique_constraints(
                     T, column_name,
                     validate_cell_foreign_constraints(column_name, treed.cell),
                     <<>>, existing_row, row_number)
    IN IF ruled.nulltype # NoNulltype THEN [hung |-> FALSE, cell |-> ruled]
       ELSE [hung |-> treed.hung, cell |-> keyed]

\* row: the cells of an existing row, or (existing_row = FALSE) the raw values
validate_row(T, row, existing_row, row_number) ==
    LET given == IF existing_row THEN row
                 ELSE [c \in Cols |-> new_cell(row[c].value)]
        result_row == [c \in Cols |-> validate_cell_nulltype(c, given[c])]
        res == [c \in Cols |->
                   validate_row_cell(T, c, result_row, existing_row, row_number)]
    IN [hung |-> \E c \in Cols : res[c].hung,
        row |-> [c \in Cols |-> res[c].cell]]

\* SELECT MAX(row_number) FROM table, plus one
new_row_number(T) ==
    IF T = {} THEN 1
    ELSE (CHOOSE n \in {r.row_number : r \in T} :
              \A r \in T : r.row_number <= n) + 1

insert_new_row(dbs, row) ==
    LET n == new_row_number(dbs.main)
        stored == stored_row(row, n)
    IN IF insert_accepted(dbs.main, <<stored>>)
       THEN [status |-> "ok", row_number |-> n,
             db |-> [dbs EXCEPT !.main = @ \cup {stored}]]
       ELSE [status |-> "error", row_number |-> n, db |-> dbs]

\* the UPDATE of one row of the main table is accepted
update_accepted(T, stored) ==
    LET others == {r \in T : r.row_number # stored.row_number}
    IN (\E r \in T : r.row_number = stored.row_number) =>
          /\ \A col \in unique_indexed :
                LET v == stored.cells[col].value
                IN v # NULL => \A r \in others : r.cells[col].value # v
          /\ \A k \in DOMAIN foreign :
                LET v == stored.cells[foreign[k].column].value
                IN v # NULL => foreign_rows(foreign[k], v) # {}

update_row(dbs, row, row_number) ==
    LET stored == stored_row(row, row_number)
    IN IF update_accepted(dbs.main, stored)
       THEN [status |-> "ok", row_number |-> row_number,
             db |-> [dbs EXCEPT !.main =
                        {IF r.row_number = row_number THEN stored ELSE r : r \in @}]]
       ELSE [status |-> "error", row_number |-> row_number, db |-> dbs]

-----------------------------------------------------------------------------
(* Calls of insert_new_row and update_row on the loaded table *)

\* The rows a caller submits
OpRows ==
    {[child |-> "a", parent |-> "",  xyzzy |-> "a", src |-> "p"],
     [child |-> "b", parent |-> "a", xyzzy |-> "a", src |-> "q"],
     [child |-> "!", parent |-> "b", xyzzy |-> "a", src |-> "p"]}

\* What the caller's xyzzy cell already carries: nothing, an error of its
\* own (as the rows of test.py do), or a message on a valid cell
Customs == {"none", "error", "note"}

caller_cell(column_name, value, custom) ==
    IF column_name # "xyzzy" \/ custom = "none" THEN new_cell(value)
    ELSE [value |-> value, valid |-> custom # "error", nulltype |-> NoNulltype,
          messages |-> <<"custom:" \o custom>>]

caller_row(raw, custom) == [c \in Cols |-> caller_cell(c, raw[c], custom)]

\* The rows of the file the calls follow
OpsInputRows ==
    {[child |-> "a", parent |-> "",  xyzzy |-> "a", src |-> "p"],
     [child |-> "!", parent |-> "b", xyzzy |-> "a", src |-> "p"],
     [child |-> "a", parent |-> "",  xyzzy |-> "!", src |-> "p"],
     [child |-> "b", parent |-> "a", xyzzy |-> "a", src |-> "q"]}

InitOps ==
    /\ input \in SeqsUpTo(OpsInputRows, MaxRowsOps)
    /\ chunk_number = 0
    /\ intra_results = <<>>
    /\ db = EmptyDb
    /\ committed = EmptyDb
    /\ pc = IF Len(input) = 0 THEN "post" ELSE "intra"
    /\ log = <<>>
    /\ nops = 0
    /\ last_op = NoOp
    /\ origin = <<>>
    /\ constraints = table_constraints
    /\ sort_result = NoSort
    /\ loaded = <<>>
    /\ schema = configured_schema(<<"prefix", table_name>>)
    /\ structure_errors = {}
    /\ num_cpus = 0
    /\ procs = <<>>
    /\ results = <<>>
    /\ proc_block = 0
    /\ proc_block_results = <<>>
    /\ finished = <<>>

\* validate_row (as a new row, or as test.py calls it) then insert_new_row
InsertNewRow ==
    /\ pc = "ready"
    /\ nops < MaxOps
    /\ \E raw \in OpRows, custom \in Customs, existing_row \in BOOLEAN :
          /\ ~existing_row => custom = "none"
          /\ LET v == validate_row(db.main, caller_row(raw, custom),
                                   existing_row, NoRowNumber)
                 res == insert_new_row(db, v.row)
             IN IF v.hung
                THEN /\ pc' = "hung"
                     /\ UNCHANGED <<db, committed, last_op, origin>>
                ELSE /\ db' = res.db
                     /\ committed' = IF res.status = "ok" THEN res.db ELSE committed
                     /\ last_op' = [kind |-> "insert", row_number |-> res.row_number,
                                    status |-> res.status,
                                    existing_row |-> existing_row,
                                    given |-> caller_row(raw, custom),
                                    row |-> v.row]
                     /\ origin' = IF res.status = "ok"
                                  THEN (res.row_number :> raw) @@ origin
                                  ELSE origin
                     /\ pc' = pc
    /\ nops' = nops + 1
    /\ UNCHANGED <<load_vars, sort_vars, mp_vars>>

\* validate_row for the row number, then update_row
UpdateRow ==
    /\ pc = "ready"
    /\ nops < MaxOps
    /\ \E raw \in OpRows, custom \in Customs, row_number \in 1..MaxRowsOps :
          LET v == validate_row(db.main, caller_row(raw, custom), TRUE, row_number)
              res == update_row(db, v.row, row_number)
              hit == \E r \in db.main : r.row_number = row_number
          IN IF v.hung
             THEN /\ pc' = "hung"
                  /\ UNCHANGED <<db, committed, last_op, origin>>
             ELSE /\ db' = res.db
                  /\ committed' = IF res.status = "ok" THEN res.db ELSE committed
                  /\ last_op' = [kind |-> "update", row_number |-> row_number,
                                 status |-> res.status, existing_row |-> TRUE,
                                 given |-> caller_row(raw, custom), row |-> v.row]
                  /\ origin' = IF res.status = "ok" /\ hit
                               THEN (row_number :> raw) @@ origin
                               ELSE origin
                  /\ pc' = pc
    /\ nops' = nops + 1
    /\ UNCHANGED <<load_vars, sort_vars, mp_vars>>

NextOps ==
    \/ ValidateRowsIntra
    \/ ValidateRowsInterAndInsert
    \/ PostLoad
    \/ InsertNewRow
    \/ UpdateRow

SpecOps == InitOps /\ [][NextOps]_vars

-----------------------------------------------------------------------------
(* graphlib.TopologicalSorter, as verify_table_deps_and_sort uses it: the
   graph is the list of its nodes in insertion order, each with the number
   of its predecessors and the list of its successors *)

ts_index(ts, node) == CHOOSE i \in DOMAIN ts : ts[i].node = node

ts_get_nodeinfo(ts, node) ==
    IF \E i \in DOMAIN ts : ts[i].node = node THEN ts
    ELSE Append(ts, [node |-> node, npredecessors |-> 0, successors |-> <<>>])

RECURSIVE ts_add_predecessors(_, _, _, _)
ts_add_predecessors(ts, node, predecessors, n) ==
    IF n > Len(predecessors) THEN ts
    ELSE LET t1 == ts_get_nodeinfo(ts, predecessors[n])
         IN ts_add_predecessors(
                [t1 EXCEPT ![ts_index(t1, predecessors[n])].successors =
                               Append(@, node)],
                node, predecessors, n + 1)

ts_add(ts, node, predecessors) ==
    LET t1 == ts_get_nodeinfo(ts, node)
    IN ts_add_predecessors(
           [t1 EXCEPT ![ts_index(t1, node)].npredecessors = @ + Len(predecessors)],
           node, predecessors, 1)

RECURSIVE find_cycle_visit(_, _, _, _)
RECURSIVE find_cycle_backtrack(_, _, _)
RECURSIVE find_cycle_root(_, _, _)

\* the body of the walk for the node at hand: s holds the stack, the position
\* of the iterator of each stack entry, and the nodes seen
find_cycle_visit(ts, s, node, k) ==
    IF node \in s.seen
    THEN IF \E i \in DOMAIN s.stack : s.stack[i] = node
         THEN LET first == CHOOSE i \in DOMAIN s.stack : s.stack[i] = node
              IN Append(SubSeq(s.stack, first, Len(s.stack)), node)
         ELSE find_cycle_backtrack(ts, s, k)
    ELSE find_cycle_backtrack(
             ts, [stack |-> Append(s.stack, node),
                  itstack |-> Append(s.itstack, 0),
                  seen |-> s.seen \cup {node}], k)

\* back to the topmost stack entry that has another successor
find_cycle_backtrack(ts, s, k) ==
    IF s.stack = <<>> THEN find_cycle_root(ts, s, k + 1)
    ELSE LET top == Len(s.stack)
             successors == ts[ts_index(ts, s.stack[top])].successors
         IN IF s.itstack[top] < Len(successors)
            THEN find_cycle_visit(ts, [s EXCEPT !.itstack[top] = @ + 1],
                                  successors[s.itstack[top] + 1], k)
            ELSE find_cycle_backtrack(
                     ts, [s EXCEPT !.stack = SubSeq(@, 1, top - 1),
                                   !.itstack = SubSeq(@, 1, top - 1)], k)

find_cycle_root(ts, s, k) ==
    IF k > Len(ts) THEN <<>>
    ELSE IF ts[k].node \in s.seen THEN find_cycle_root(ts, s, k + 1)
    ELSE find_cycle_visit(ts, s, ts[k].node, k)

\* the cycle found, the empty list for None
find_cycle(ts) ==
    find_cycle_root(ts, [stack |-> <<>>, itstack |-> <<>>, seen |-> {}], 1)

\* done(node): each successor has one predecessor less and is ready at zero
RECURSIVE ts_done(_, _, _, _)
ts_done(ts, ready, successors, n) ==
    IF n > Len(successors) THEN [ts |-> ts, ready |-> ready]
    ELSE LET i == ts_index(ts, successors[n])
             t1 == [ts EXCEPT ![i].npredecessors = @ - 1]
         IN ts_done(t1,
                    IF t1[i].npredecessors = 0 THEN Append(ready, successors[n])
                    ELSE ready,
                    successors, n + 1)

RECURSIVE ts_done_group(_, _, _, _)
ts_done_group(ts, ready, group, n) ==
    IF n > Len(group) THEN [ts |-> ts, ready |-> ready]
    ELSE LET d == ts_done(ts, ready, ts[ts_index(ts, group[n])].successors, 1)
         IN ts_done_group(d.ts, d.ready, group, n + 1)

\* get_ready and done until no node is left
RECURSIVE ts_groups(_, _, _)
ts_groups(ts, ready, out) ==
    IF ready = <<>> THEN out
    ELSE LET d == ts_done_group(ts, <<>>, ready, 1)
         IN ts_groups(d.ts, d.ready, out \o ready)

static_order(ts) ==
    LET ready == SelectSeq([i \in DOMAIN ts |-> ts[i]],
                           LAMBDA info : info.npredecessors = 0)
        cycle == find_cycle(ts)
    IN IF cycle # <<>> THEN [cycle |-> cycle, order |-> <<>>]
       ELSE [cycle |-> <<>>,
             order |-> ts_groups(ts, [i \in DOMAIN ready |-> ready[i].node], <<>>)]

-----------------------------------------------------------------------------
(* verify_table_deps_and_sort *)

\* the sorter of the trees of one table
RECURSIVE tree_sorter(_, _, _)
tree_sorter(trees, n, ts) ==
    IF n > Len(trees) THEN ts
    ELSE tree_sorter(trees, n + 1, ts_add(ts, trees[n].child, <<trees[n].parent>>))

\* the steps of the message for a cycle among the trees of a table
tree_cycle_message(trees, cycle) ==
    [i \in 1..(Len(cycle) - 1) |->
        LET deps == SelectSeq(trees, LAMBDA d : d.child = cycle[i])
        IN IF deps = <<>> THEN [raised |-> "IndexError"]
           ELSE [raised |-> "", child |-> cycle[i],
                 parent |-> deps[Len(deps)].parent]]

\* the first table, from the n-th on, whose trees have a cycle
RECURSIVE check_trees(_, _, _)
check_trees(table_list, n, cons) ==
    IF n > Len(table_list) THEN NoSort
    ELSE LET sorted == static_order(tree_sorter(cons.tree[table_list[n]], 1, <<>>))
             message == tree_cycle_message(cons.tree[table_list[n]], sorted.cycle)
         IN IF sorted.cycle = <<>> THEN check_trees(table_list, n + 1, cons)
            ELSE [status |-> IF \E i \in DOMAIN message : message[i].raised # ""
                             THEN "IndexError" ELSE "CycleError",
                  order |-> <<>>, cycle |-> sorted.cycle, message |-> message]

\* add_unders when an under key into another table adds no dependency
add_unders_no_edge(ukeys, m, table, cons, ts) == [raised |-> "", ts |-> ts]

\* the under keys of a table, from the m-th on, added to the sorter
RECURSIVE add_unders(_, _, _, _, _)
add_unders(ukeys, m, table, cons, ts) ==
    IF m > Len(ukeys) THEN [raised |-> "", ts |-> ts]
    ELSE IF ukeys[m].ttable = table THEN add_unders(ukeys, m + 1, table, cons, ts)
    ELSE IF SelectSeq(cons.tree[ukeys[m].ttable],
                      LAMBDA tkey : tkey.child = ukeys[m].tcolumn) = <<>>
    THEN [raised |-> "ConfigError", ts |-> ts]
    ELSE add_unders(ukeys, m + 1, table, cons,
                    ts_add(ts, table, <<ukeys[m].ttable>>))

\* the tables, from the n-th on, added to the sorter; dep_order[t] lists the
\* set of the tables t has a foreign key into, in the order the set yields
RECURSIVE add_tables(_, _, _, _, _)
add_tables(table_list, n, cons, dep_order, ts) ==
    IF n > Len(table_list) THEN [raised |-> "", ts |-> ts]
    ELSE LET table == table_list[n]
             unders == add_unders(cons.under[table], 1, table, cons,
                                  ts_add(ts, table, dep_order[table]))
         IN IF unders.raised # "" THEN unders
            ELSE add_tables(table_list, n + 1, cons, dep_order, unders.ts)

\* one step of the message for a cycle among the tables
cycle_step(cons, table, dep_name) ==
    LET fdeps == SelectSeq(cons.foreign[table], LAMBDA d : d.ftable = dep_name)
        udeps == SelectSeq(cons.under[table], LAMBDA d : d.ttable = dep_name)
    IN IF fdeps # <<>>
       THEN [raised |-> "", table |-> table,
             column |-> fdeps[Len(fdeps)].column,
             dep_table |-> fdeps[Len(fdeps)].ftable,
             dep_column |-> fdeps[Len(fdeps)].fcolumn]
       ELSE IF udeps # <<>>
       THEN [raised |-> "", table |-> table,
             column |-> udeps[Len(udeps)].column,
             dep_table |-> udeps[Len(udeps)].ttable,
             dep_column |-> udeps[Len(udeps)].tcolumn]
       ELSE [raised |-> "IndexError"]

cycle_message(cons, cycle) ==
    [i \in 1..(Len(cycle) - 1) |-> cycle_step(cons, cycle[i], cycle[i + 1])]

verify_table_deps_and_sort(table_list, cons, dep_order) ==
    LET trees == check_trees(table_list, 1, cons)
        added == add_tables(table_list, 1, cons, dep_order, <<>>)
        sorted == static_order(added.ts)
        message == cycle_message(cons, sorted.cycle)
    IN IF trees.status # "none" THEN trees
       ELSE IF added.raised # ""
       THEN [status |-> added.raised, order |-> <<>>, cycle |-> <<>>,
             message |-> <<>>]
       ELSE IF sorted.cycle = <<>>
       THEN [status |-> "ok", order |-> sorted.order, cycle |-> <<>>,
             message |-> <<>>]
       ELSE [status |-> IF \E i \in DOMAIN message : message[i].raised # ""
                        THEN "IndexError" ELSE "CycleError",
             order |-> <<>>, cycle |-> sorted.cycle, message |-> message]

-----------------------------------------------------------------------------
(* Sorting the tables of a configuration and loading them in that order *)

\* list(config["table"])
sort_table_list == <<"prefix", "import", "foobar">>

SortTables == Range(sort_table_list)

foreign_key_into(t) == [column |-> "from_" \o t, ftable |-> t, fcolumn |-> "id"]

under_key_into(t) ==
    [column |-> "under_" \o t, ttable |-> t, tcolumn |-> "child", value |-> "a"]

\* the foreign keys a table may have: into at most MaxDeps tables
ForeignOptions ==
    {[i \in DOMAIN SetToSeq(F) |-> foreign_key_into(SetToSeq(F)[i])] :
        F \in {G \in SUBSET SortTables : Cardinality(G) <= MaxDeps}}

UnderOptions == {<<>>} \cup {<<under_key_into(t)>> : t \in SortTables}

OneTree == <<[child |-> "child", parent |-> "parent"]>>

\* the trees the last table may have: none, one, or two that form a cycle
TreeOptions ==
    {<<>>, OneTree, OneTree \o <<[child |-> "parent", parent |-> "child"]>>}

SortConstraints ==
    {[foreign |-> f, under |-> u,
      tree |-> [t \in SortTables |->
                   IF t = sort_table_list[Len(sort_table_list)] THEN tr
                   ELSE OneTree]] :
        f \in [SortTables -> ForeignOptions],
        u \in [SortTables -> UnderOptions],
        tr \in TreeOptions}

\* the orders in which set(...) may yield the tables of the foreign keys
set_orders(S) ==
    {q \in [1..Cardinality(S) -> S] : \A i, j \in DOMAIN q : i # j => q[i] # q[j]}

foreign_tables(cons, t) ==
    {cons.foreign[t][i].ftable : i \in DOMAIN cons.foreign[t]}

dep_orders(cons) ==
    {[t \in SortTables |->
         IF t = sort_table_list[1] THEN a
         ELSE IF t = sort_table_list[2] THEN b ELSE c] :
        a \in set_orders(foreign_tables(cons, sort_table_list[1])),
        b \in set_orders(foreign_tables(cons, sort_table_list[2])),
        c \in set_orders(foreign_tables(cons, sort_table_list[3]))}

InitSort ==
    /\ constraints \in SortConstraints
    /\ sort_result = NoSort
    /\ loaded = <<>>
    /\ schema = configured_schema(sort_table_list)
    /\ structure_errors = {}
    /\ pc = "sort"
    /\ input = <<>>
    /\ chunk_number = 0
    /\ intra_results = <<>>
    /\ db = EmptyDb
    /\ committed = EmptyDb
    /\ log = <<>>
    /\ nops = 0
    /\ last_op = NoOp
    /\ origin = <<>>
    /\ num_cpus = 0
    /\ procs = <<>>
    /\ results = <<>>
    /\ proc_block = 0
    /\ proc_block_results = <<>>
    /\ finished = <<>>

\* load_db sorts the tables, or verify_table_deps_and_sort raises
VerifyTableDepsAndSort ==
    /\ pc = "sort"
    /\ \E dep_order \in dep_orders(constraints) :
          sort_result' = verify_table_deps_and_sort(sort_table_list, constraints,
                                                    dep_order)
    /\ pc' = IF sort_result'.status = "ok" THEN "load" ELSE "raised"
    /\ UNCHANGED <<constraints, loaded, schema, structure_errors, load_vars, db,
                   committed, op_vars, mp_vars>>

\* load_db loads the next table of the sorted list
LoadTable ==
    /\ pc = "load"
    /\ Len(loaded) < Len(sort_result.order)
    /\ loaded' = Append(loaded, sort_result.order[Len(loaded) + 1])
    /\ pc' = IF Len(loaded') = Len(sort_result.order) THEN "loaded" ELSE "load"
    /\ UNCHANGED <<constraints, sort_result, schema, structure_errors, load_vars,
                   db, committed, op_vars, mp_vars>>

NextSort ==
    \/ VerifyTableDepsAndSort
    \/ LoadTable

SpecSort == InitSort /\ [][NextSort]_vars

-----------------------------------------------------------------------------
(* configure_and_load_db: configure_db creates the tables one by one, then  *)
(* load_db sorts them and loads them; no exception is caught on the way     *)

\* the configurations of a run: every table may have foreign keys, the
\* first table an under key, the last table no tree, one, or two in a cycle
RunConstraints ==
    {c \in SortConstraints :
        \A t \in SortTables : t # sort_table_list[1] => c.under[t] = <<>>}

\* the tables configure_db has created
configured == Len(schema) \div Len(table_schema(table_name))

InitRun ==
    /\ constraints \in RunConstraints
    /\ structure_errors \in {S \in SUBSET SortTables : Cardinality(S) <= 1}
    /\ schema = <<>>
    /\ sort_result = NoSort
    /\ loaded = <<>>
    /\ pc = "configure"
    /\ input = <<>>
    /\ chunk_number = 0
    /\ intra_results = <<>>
    /\ db = EmptyDb
    /\ committed = EmptyDb
    /\ log = <<>>
    /\ nops = 0
    /\ last_op = NoOp
    /\ origin = <<>>
    /\ num_cpus = 0
    /\ procs = <<>>
    /\ results = <<>>
    /\ proc_block = 0
    /\ proc_block_results = <<>>
    /\ finished = <<>>

\* one turn of the loop of configure_db: create_table for the table and for
\* its conflict table, each script executed at once, then the view
ConfigureTable ==
    /\ pc = "configure"
    /\ LET t == sort_table_list[configured + 1]
       IN IF t \in structure_errors
          THEN /\ pc' = "config_raised"
               /\ UNCHANGED schema
          ELSE /\ schema' = schema \o table_schema(t)
               /\ pc' = IF configured + 1 = Len(sort_table_list)
                        THEN "sort" ELSE "configure"
    /\ UNCHANGED <<constraints, sort_result, loaded, structure_errors, load_vars,
                   db, committed, op_vars, mp_vars>>

\* loading or post-checking the next table raises: load_db ends there
LoadTableRaises ==
    /\ pc = "load"
    /\ Len(loaded) < Len(sort_result.order)
    /\ pc' = "load_raised"
    /\ UNCHANGED <<sort_vars, load_vars, db, committed, op_vars, mp_vars>>

NextRun ==
    \/ ConfigureTable
    \/ VerifyTableDepsAndSort
    \/ LoadTable
    \/ LoadTableRaises

SpecRun == InitRun /\ [][NextRun]_vars

-----------------------------------------------------------------------------
(* validate_and_insert_chunks with MULTIPROCESSING: blocks of worker
   processes validate the chunks, then the results of the block are
   persisted one chunk at a time *)

\* the rows of the file
MPInputRows ==
    {[child |-> "a", parent |-> "",  xyzzy |-> "a", src |-> "p"],
     [child |-> "b", parent |-> "a", xyzzy |-> "a", src |-> "p"],
     [child |-> "a", parent |-> "b", xyzzy |-> "!", src |-> "p"]}

\* the chunks of the block at hand: itertools.zip_longest over the processes
block_procs(i) == {k \in DOMAIN procs : k \div num_cpus = i}

\* sorted_results when the results keep the order of the dictionary
sorted_results_as_stored(items) == items

\* sorted(results.items()): by chunk number
RECURSIVE sorted_results(_)
sorted_results(items) ==
    IF items = <<>> THEN <<>>
    ELSE LET least == CHOOSE i \in DOMAIN items :
                          \A j \in DOMAIN items : items[i].chunk <= items[j].chunk
         IN <<items[least]>>
            \o sorted_results(SelectSeq(items,
                                        LAMBDA x : x.chunk # items[least].chunk))

\* ordered_results when the results are sorted the other way round
ordered_results_descending(items) ==
    [i \in DOMAIN items |-> sorted_results(items)[Len(items) + 1 - i]]

\* proc_block_results: OrderedDict(sorted(results.items()))
ordered_results(items) == sorted_results(items)

\* the else branch of validate_and_insert_chunks, from chunk k on
RECURSIVE inline_chunks(_, _, _)
inline_chunks(dbs, rows, k) ==
    IF k >= NumChunks(rows) THEN [status |-> "post", db |-> dbs]
    ELSE LET res == validate_rows_inter_and_insert(
                        dbs, validate_rows_intra(chunk_of(rows, k)), k)
         IN IF res.path \in {"hung", "error"}
            THEN [status |-> res.path, db |-> res.db]
            ELSE inline_chunks(res.db, rows, k + 1)

InitMP ==
    /\ input \in SeqsUpTo(MPInputRows, MaxRowsMP)
    /\ num_cpus \in 1..MaxCpus
    /\ procs = [k \in 0..(NumChunks(input) - 1) |-> "created"]
    /\ results = <<>>
    /\ proc_block = 0
    /\ proc_block_results = <<>>
    /\ finished = <<>>
    /\ pc = IF Len(input) = 0 THEN "post" ELSE "start"
    /\ chunk_number = 0
    /\ intra_results = <<>>
    /\ db = EmptyDb
    /\ committed = EmptyDb
    /\ log = <<>>
    /\ nops = 0
    /\ last_op = NoOp
    /\ origin = <<>>
    /\ constraints = table_constraints
    /\ sort_result = NoSort
    /\ loaded = <<>>
    /\ schema = configured_schema(<<"prefix", table_name>>)
    /\ structure_errors = {}

\* proc.start() for the next process of the block
ProcStart ==
    /\ pc = "start"
    /\ LET waiting == {k \in block_procs(proc_block) : procs[k] = "created"}
           k == CHOOSE m \in waiting : \A n \in waiting : m <= n
       IN /\ waiting # {}
          /\ procs' = [procs EXCEPT ![k] = "started"]
          /\ pc' = IF waiting = {k} THEN "join" ELSE "start"
    /\ UNCHANGED <<input, chunk_number, intra_results, db, committed, log,
                   op_vars, sort_vars, num_cpus, results, proc_block,
                   proc_block_results, finished>>

\* a worker process runs validate_rows_intra and stores its result
WorkerValidateRowsIntra ==
    /\ \E k \in DOMAIN procs :
          /\ procs[k] = "started"
          /\ procs' = [procs EXCEPT ![k] = "finished"]
          /\ results' = Append(results,
                               [chunk |-> k,
                                rows |-> validate_rows_intra(chunk_of(input, k))])
          /\ finished' = Append(finished, k)
    /\ UNCHANGED <<input, chunk_number, intra_results, db, committed, log, pc,
                   op_vars, sort_vars, num_cpus, proc_block, proc_block_results>>

\* proc.join() and proc.close() for the next process of the block
ProcJoin ==
    /\ pc = "join"
    /\ LET open == {k \in block_procs(proc_block) : procs[k] # "closed"}
           k == CHOOSE m \in open : \A n \in open : m <= n
       IN /\ open # {}
          /\ procs[k] = "finished"
          /\ procs' = [procs EXCEPT ![k] = "closed"]
          /\ pc' = IF open = {k} THEN "collect" ELSE "join"
    /\ UNCHANGED <<input, chunk_number, intra_results, db, committed, log,
                   op_vars, sort_vars, num_cpus, results, proc_block,
                   proc_block_results, finished>>

\* the results of the block are sorted and the dictionary is cleared
CollectResults ==
    /\ pc = "collect"
    /\ proc_block_results' = ordered_results(results)
    /\ results' = <<>>
    /\ pc' = "persist"
    /\ UNCHANGED <<input, chunk_number, intra_results, db, committed, log,
                   op_vars, sort_vars, num_cpus, procs, proc_block, finished>>

\* validate_rows_inter_and_insert for the next result of the block
PersistBlockResult ==
    /\ pc = "persist"
    /\ proc_block_results # <<>>
    /\ LET item == Head(proc_block_results)
           res == validate_rows_inter_and_insert(db, item.rows, item.chunk)
           last_block == \A k \in DOMAIN procs : k \div num_cpus <= proc_block
       IN /\ db' = res.db
          /\ committed' = IF res.commit THEN res.db ELSE committed
          /\ log' = Append(log, [chunk |-> item.chunk, path |-> res.path,
                                 rows |-> res.rows, inserts |-> res.inserts])
          /\ proc_block_results' = Tail(proc_block_results)
          /\ pc' = IF res.path \in {"hung", "error"} THEN res.path
                   ELSE IF Tail(proc_block_results) # <<>> THEN "persist"
                   ELSE IF last_block THEN "post" ELSE "start"
          /\ proc_block' = IF pc' = "start" THEN proc_block + 1 ELSE proc_block
    /\ UNCHANGED <<input, chunk_number, intra_results, op_vars, sort_vars,
                   num_cpus, procs, results, finished>>

NextMP ==
    \/ ProcStart
    \/ WorkerValidateRowsIntra
    \/ ProcJoin
    \/ CollectResults
    \/ PersistBlockResult
    \/ PostLoad

SpecMP == InitMP /\ [][NextMP]_vars

-----------------------------------------------------------------------------
(* Properties *)

\* the columns that are primary, unique or the child of a tree
KeyColumns == {"child"}

\* the rows of either INSERT of a persistence step
inserted(e) == Range(e.inserts.main) \cup Range(e.inserts.conflict)

\* the persistence steps that generated INSERTs
Persisted == {i \in DOMAIN log : log[i].path # "hung"}

\* the text a stored cell stands for
original_value(sc) == IF sc.meta.null THEN sc.value ELSE sc.meta.value

row_numbers(seq) == [i \in DOMAIN seq |-> seq[i].row_number]

ascending(seq) == \A i, j \in DOMAIN seq : i < j => seq[i] < seq[j]

\* C1: once the load has finished, every input row is stored in exactly one
\* of the table and its conflict table, under the row number it was given,
\* so that the view has as many rows as the input and no row number twice.
C1_EveryRowStoredOnce ==
    pc = "ready" =>
        /\ \A n \in 1..Len(input) :
              /\ Cardinality({r \in db.main : r.row_number = n})
                 + Cardinality({r \in db.conflict : r.row_number = n}) = 1
              /\ \A r \in db.main \cup db.conflict :
                    r.row_number = n =>
                       original_value(r.cells["child"]) = input[n]["child"]
        /\ Cardinality(db.main \cup db.conflict) = Len(input)

\* C3: make_inserts puts each row of the chunk in exactly one of the main and
\* the conflict INSERT, in source order, and a row is in the conflict INSERT
\* exactly when one of its cells in a primary, unique or tree-child column is
\* invalid, whatever the validity of its other cells.
C3_MakeInsertsPartition ==
    \A e \in Persisted :
        LET ins == log[e].inserts
            rows == log[e].rows
            base == log[e].chunk * CHUNK_SIZE
            mains == {r.row_number : r \in Range(ins.main)}
            conflicts == {r.row_number : r \in Range(ins.conflict)}
        IN /\ mains \cap conflicts = {}
           /\ mains \cup conflicts = {base + i : i \in DOMAIN rows}
           /\ Len(ins.main) + Len(ins.conflict) = Len(rows)
           /\ ascending(row_numbers(ins.main))
           /\ ascending(row_numbers(ins.conflict))
           /\ \A i \in DOMAIN rows :
                 (base + i \in conflicts)
                    <=> (\E col \in KeyColumns : ~rows[i][col].valid)

\* a chunk with a row in the conflict INSERT and a row in the main INSERT
\* that has an invalid cell in another column
C3_Witness ==
    \E e \in Persisted :
        /\ log[e].inserts.conflict # <<>>
        /\ \E i \in DOMAIN log[e].rows :
              /\ \E col \in Cols \ KeyColumns : ~log[e].rows[i][col].valid
              /\ \E r \in Range(log[e].inserts.main) :
                    r.row_number = log[e].chunk * CHUNK_SIZE + i

\* C8: the n-th row of chunk k is given row number n + k * CHUNK_SIZE, also
\* when the INSERTs are generated again; every chunk but the last holds
\* CHUNK_SIZE rows, so the numbers given are 1..N in source order: the row
\* given number m is the m-th row of the input.
C8_RowNumbers ==
    /\ \A e \in Persisted :
          /\ log[e].chunk = e - 1
          /\ (e < Len(log) \/ pc \in {"post", "ready"}) =>
                Len(log[e].rows) = IF e < NumChunks(input) THEN CHUNK_SIZE
                                   ELSE Len(input) - (e - 1) * CHUNK_SIZE
          /\ {r.row_number : r \in inserted(log[e])}
                = {n + log[e].chunk * CHUNK_SIZE : n \in DOMAIN log[e].rows}
          /\ Cardinality(inserted(log[e])) = Len(log[e].rows)
          /\ \A r \in inserted(log[e]) :
                /\ r.row_number \in 1..Len(input)
                /\ \A c \in Cols :
                      original_value(r.cells[c]) = input[r.row_number][c]
    /\ (pc \in {"post", "ready"} /\ Persisted = DOMAIN log) =>
          UNION {{r.row_number : r \in inserted(log[e])} : e \in DOMAIN log}
             = 1..Len(input)

\* a load of more than one chunk whose second chunk took the fallback path
C8_Witness ==
    /\ pc = "ready"
    /\ Len(log) >= 2
    /\ log[2].path = "fallback"
    /\ \E r \in inserted(log[2]) : r.row_number = CHUNK_SIZE + 1

\* C2 as stated: no row of the main table has an invalid cell in a primary,
\* unique or tree-child column, after the load and after calls of
\* insert_new_row and update_row.
C2_NoInvalidKeyCellInMain ==
    \A r \in db.main : \A col \in KeyColumns :
        r.cells[col].meta.null \/ r.cells[col].meta.valid

\* C2: no row that the bulk load puts in the main table has an invalid cell
\* in a primary, unique or tree-child column; the rows of the main table
\* that have one were written there by insert_new_row or update_row.
C2_InvalidKeyCellOnlyFromRowCalls ==
    /\ \A e \in Persisted : \A r \in Range(log[e].inserts.main) :
          \A col \in KeyColumns :
             r.cells[col].meta.null \/ r.cells[col].meta.valid
    /\ \A r \in db.main :
          (\E col \in KeyColumns :
              ~r.cells[col].meta.null /\ ~r.cells[col].meta.valid)
             => r.row_number \in DOMAIN origin

\* insert_new_row has put a row with an invalid key cell in the main table
\* next to rows of the bulk load, one of them in the conflict table
C2_Witness ==
    /\ last_op.kind = "insert"
    /\ last_op.status = "ok"
    /\ \E r \in db.main :
          /\ r.row_number = last_op.row_number
          /\ ~r.cells["child"].meta.null
          /\ ~r.cells["child"].meta.valid
    /\ \E e \in Persisted : log[e].inserts.conflict # <<>>
    /\ \E r \in db.main : r.row_number \notin DOMAIN origin

\* the meta of the stored cell is NULL exactly for a plain valid cell
meta_null_iff_plain(cell, sc) ==
    sc.meta.null
       <=> (cell.valid /\ cell.nulltype = NoNulltype /\ cell.messages = <<>>)

\* C9: for every cell written by make_inserts, update_row or insert_new_row
\* the stored meta is NULL exactly when the cell is valid, has no nulltype
\* and has no messages.
C9_MetaNullIffPlainValid ==
    /\ \A e \in Persisted : \A r \in inserted(log[e]) : \A c \in Cols :
          meta_null_iff_plain(
              log[e].rows[r.row_number - log[e].chunk * CHUNK_SIZE][c],
              r.cells[c])
    /\ (last_op.kind # "none" /\ last_op.status = "ok") =>
          \A r \in db.main :
             r.row_number = last_op.row_number =>
                \A c \in Cols : meta_null_iff_plain(last_op.row[c], r.cells[c])

\* the raw row behind a stored row
raw_row(r, in_main) ==
    IF in_main /\ r.row_number \in DOMAIN origin THEN origin[r.row_number]
    ELSE input[r.row_number]

value_kept(r, in_main) ==
    \A c \in Cols :
        (~r.cells[c].meta.null /\ ~r.cells[c].meta.valid) =>
           /\ r.cells[c].meta.value = raw_row(r, in_main)[c]
           /\ r.cells[c].value = NULL

\* C10: in every state of the tables after the bulk load, the patches of the
\* two checks that follow it, update_row and insert_new_row, a stored cell
\* that is not valid holds the original text in the value of its meta and
\* NULL in its typed column.
C10_InvalidCellKeepsValue ==
    /\ \A r \in db.main : value_kept(r, TRUE)
    /\ \A r \in db.conflict : value_kept(r, FALSE)

\* a cell that was invalid before the under check patched it
C10_Witness ==
    \E r \in db.main :
        LET meta == r.cells["xyzzy"].meta
        IN /\ ~meta.null
           /\ Len(meta.messages) >= 2
           /\ meta.messages[1] = "datatype:word"
           /\ meta.messages[Len(meta.messages)] = "under:not-in-tree"
           /\ meta.value = "!"

\* the pairs (a, b) where table a depends on table b: a foreign key of a
\* into b, or an under key of a whose tree is in another table b
dep_edges(cons) ==
    {<<a, b>> \in SortTables \X SortTables :
        \/ b \in foreign_tables(cons, a)
        \/ a # b /\ \E i \in DOMAIN cons.under[a] : cons.under[a][i].ttable = b}

RECURSIVE dep_closure(_)
dep_closure(E) ==
    LET next == E \cup {p \in SortTables \X SortTables :
                            \E e \in E, f \in E :
                               e[2] = f[1] /\ p = <<e[1], f[2]>>}
    IN IF next = E THEN E ELSE dep_closure(next)

has_dep_cycle(cons) == \E t \in SortTables : <<t, t>> \in dep_closure(dep_edges(cons))

has_tree_cycle(cons) == \E t \in SortTables : Len(cons.tree[t]) > 1

\* an under key into another table that has no tree on the column
has_missing_tree(cons) ==
    \E a \in SortTables : \E i \in DOMAIN cons.under[a] :
        LET u == cons.under[a][i]
        IN u.ttable # a /\ \A j \in DOMAIN cons.tree[u.ttable] :
                               cons.tree[u.ttable][j].child # u.tcolumn

sorted_cleanly == pc \in {"load", "loaded", "raised"}
                     /\ ~has_tree_cycle(constraints)
                     /\ ~has_missing_tree(constraints)

position(seq, x) == CHOOSE i \in DOMAIN seq : seq[i] = x

\* C4: for an acyclic dependency graph verify_table_deps_and_sort returns
\* each table of the list exactly once and nothing else, a table after every
\* table it has a foreign key into or whose tree one of its under keys
\* names; load_db loads the tables in that order.
C4_TablesSortedByDependency ==
    (sorted_cleanly /\ ~has_dep_cycle(constraints)) =>
        LET order == sort_result.order
        IN /\ sort_result.status = "ok"
           /\ Len(order) = Len(sort_table_list)
           /\ Range(order) = SortTables
           /\ \A e \in dep_edges(constraints) :
                 position(order, e[2]) < position(order, e[1])
           /\ loaded = SubSeq(order, 1, Len(loaded))
           /\ pc = "loaded" => loaded = order

\* the tables are loaded, one depends on another through a foreign key and
\* one through an under key, and the order is not the order of the list
C4_Witness ==
    /\ pc = "loaded"
    /\ ~has_dep_cycle(constraints)
    /\ loaded # sort_table_list
    /\ \E a \in SortTables : constraints.foreign[a] # <<>>
    /\ \E a \in SortTables : \E i \in DOMAIN constraints.under[a] :
          constraints.under[a][i].ttable # a

\* C5: when the dependency graph of the tables has a cycle, of whatever
\* length, verify_table_deps_and_sort raises CycleError and its message
\* names, for each step of the cycle, a column of the depending table and
\* the table and column it depends on; no other exception is raised.
C5_CycleErrorNamesEachStep ==
    (sorted_cleanly /\ has_dep_cycle(constraints)) =>
        /\ sort_result.status = "CycleError"
        /\ \A i \in DOMAIN sort_result.message :
              LET step == sort_result.message[i]
              IN /\ step.raised = ""
                 /\ <<step.table, step.dep_table>> \in dep_edges(constraints)

\* C6: with multiprocessing the chunks are handed to the persistence step in
\* strictly ascending chunk number, each once, all of them by the end, and
\* none before its worker process has finished, whatever the number of
\* processes run at a time and the order in which they finish.
C6_ChunksPersistedInOrder ==
    /\ \A i, j \in DOMAIN log : i < j => log[i].chunk < log[j].chunk
    /\ \A i \in DOMAIN log : procs[log[i].chunk] \in {"finished", "closed"}
    /\ pc \in {"post", "ready"} =>
          {log[i].chunk : i \in DOMAIN log} = 0..(NumChunks(input) - 1)

\* all chunks are persisted although a later chunk finished before an earlier
C6_Witness ==
    /\ pc = "post"
    /\ Len(log) >= 3
    /\ num_cpus >= 2
    /\ \E i, j \in DOMAIN finished : i < j /\ finished[i] > finished[j]

\* C7: a run with blocks of worker processes ends in the database state of
\* the inline run on the same rows, whatever the number of processes run at
\* a time and the order in which they finish.
C7_SameStateAsInline ==
    LET inline == inline_chunks(EmptyDb, input, 0)
    IN /\ pc = "post" => inline.status = "post" /\ db = inline.db
       /\ pc = "ready" =>
             /\ inline.status = "post"
             /\ db = [inline.db EXCEPT !.main = post_load(@)]
       /\ pc \in {"hung", "error"} =>
             inline.status \in {pc, "post"} /\ db = inline.db

\* a finished run of three chunks in blocks of two or more processes that
\* finished out of order, with rows in the conflict table
C7_Witness ==
    /\ pc = "ready"
    /\ num_cpus >= 2
    /\ NumChunks(input) >= 3
    /\ db.conflict # {}
    /\ finished # <<>>
    /\ finished[1] # 0

-----------------------------------------------------------------------------
(* Transactions of the bulk load                                            *)

stored_row_numbers(T) == {r.row_number : r \in T}

\* C11: once a chunk has been persisted, on the first-attempt path as well as
\* on the fallback path, the rows of its main INSERT and the rows of its
\* conflict INSERT are committed in T and T_conflict, so that whatever
\* happens to a later chunk leaves them in the database.
C11_ChunkInsertsCommitted ==
    \A e \in Persisted :
        log[e].path \in {"first", "fallback"} =>
            /\ {r.row_number : r \in Range(log[e].inserts.main)}
                  \subseteq stored_row_numbers(committed.main)
            /\ {r.row_number : r \in Range(log[e].inserts.conflict)}
                  \subseteq stored_row_numbers(committed.conflict)

-----------------------------------------------------------------------------
(* Tree cycles                                                              *)

\* the rows the main INSERTs of the steps before step e put in the table
main_before(e) ==
    UNION {Range(log[j].inserts.main) :
              j \in {k \in Persisted : k < e /\ log[k].path \in {"first", "fallback"}}}

\* the messages validate_rows_constraints appends after the tree validation
ConstraintTags == {"key:primary", "key:unique", "tree:child-unique", "key:foreign"}

\* the validity of a cell when validate_rows_trees was done with its row
valid_in_tree_pass(cell) == \A m \in Range(cell.messages) : m \in ConstraintTags

\* child -> parent edges of stored rows: a NULL joins nothing
stored_edges(T) ==
    {<<r.cells["child"].value, r.cells["parent"].value>> :
        r \in {x \in T : /\ x.cells["child"].value # NULL
                         /\ x.cells["parent"].value # NULL}}

\* child -> parent edges of the rows of a chunk whose indices are in idx
chunk_edges(rows, idx) ==
    {<<rows[j]["child"].value, rows[j]["parent"].value>> :
        j \in {k \in idx : /\ valid_in_tree_pass(rows[k]["child"])
                           /\ valid_in_tree_pass(rows[k]["parent"])}}

RECURSIVE reach(_, _)
reach(E, S) ==
    LET N == S \cup {x[2] : x \in {y \in E : y[1] \in S}}
    IN IF N = S THEN S ELSE reach(E, N)

\* the nodes above p along the edges of E
ancestors(E, p) == reach(E, {x[2] : x \in {y \in E : y[1] = p}})

\* C15: the parent cell of a row (c, p) of a chunk carries tree:cycle exactly
\* when c is an ancestor of p along the child -> parent edges of the rows of
\* the main table and of the earlier rows of the chunk whose child and parent
\* cells are both valid; later rows and rows with an invalid child or parent
\* cell give no edge.
C15_TreeCycleIffAncestor ==
    \A e \in Persisted :
        LET rows == log[e].rows IN
        \A i \in DOMAIN rows :
            LET E == stored_edges(main_before(e)) \cup chunk_edges(rows, 1..(i - 1))
            IN ("tree:cycle" \in Range(rows[i]["parent"].messages))
                  <=> (rows[i]["child"].value \in ancestors(E, rows[i]["parent"].value))

\* A load in which one row is marked because of an earlier row of its chunk,
\* the row before it is not marked although the later row closes the cycle,
\* and a row of the next chunk is marked because of rows of the table alone.
C15_Witness ==
    /\ Len(log) = 2
    /\ log[2].path # "hung"
    /\ Len(log[1].rows) = 2
    /\ "tree:cycle" \in Range(log[1].rows[2]["parent"].messages)
    /\ "tree:cycle" \notin Range(log[1].rows[1]["parent"].messages)
    /\ log[1].rows[2]["child"].value = log[1].rows[1]["parent"].value
    /\ log[1].rows[2]["parent"].value = log[1].rows[1]["child"].value
    /\ "tree:cycle" \in Range(log[2].rows[1]["parent"].messages)
    /\ log[2].rows[1]["child"].value
          \in ancestors(stored_edges(main_before(2)), log[2].rows[1]["parent"].value)

-----------------------------------------------------------------------------
(* Post-load check of the parent column of a tree                           *)

\* the values of the child column of the table
child_values(T) == {t.cells["child"].value : t \in T} \ {NULL}

\* C16: when the post-load patches of the table are applied, every non-NULL
\* value left in the parent column is a value of the child column; every
\* non-empty parent value that is in no row of the child column is stored as
\* NULL with the value and a tree:foreign message in its meta; and no other
\* cell is patched: a cell that was NULL already and whose original value is
\* in the child column gets no tree:foreign message.
C16_ParentValuesAreChildren ==
    pc = "ready" =>
        \A r \in db.main :
            LET cell == r.cells["parent"]
                raw == input[r.row_number]["parent"]
                absent == raw \notin child_values(db.main)
                patched == "tree:foreign" \in Range(cell.meta.messages)
            IN /\ cell.value # NULL => (cell.value = raw /\ ~absent)
               /\ (raw # "" /\ absent) =>
                     /\ cell.value = NULL
                     /\ ~cell.meta.null
                     /\ cell.meta.value = raw
                     /\ patched
               /\ patched => (raw # "" /\ absent)

\* A loaded table with a parent cell patched because its value is no child
\* and a parent cell that was NULL already (tree:cycle) and is left as it
\* was, its original value being a child.
C16_Witness ==
    /\ pc = "ready"
    /\ \E r \in db.main :
          r.cells["parent"].meta.messages = <<"tree:foreign">>
    /\ \E r \in db.main :
          /\ r.cells["parent"].value = NULL
          /\ r.cells["parent"].meta.messages = <<"tree:cycle">>
          /\ r.cells["parent"].meta.value \in child_values(db.main)

-----------------------------------------------------------------------------
(* Uniqueness of the key columns                                            *)

UniqueTags == {"key:primary", "key:unique", "tree:child-unique"}

TreeChildColumns == {tree[i].child : i \in DOMAIN tree}

\* the messages a duplicate in the column is to get
unique_messages(col) ==
    (IF col \in Range(primary) THEN <<"key:primary">>
     ELSE IF col \in Range(unique) THEN <<"key:unique">>
     ELSE <<>>)
    \o (IF col \in TreeChildColumns THEN <<"tree:child-unique">> ELSE <<>>)

\* the row number of the first input row with the child value of row n
first_with_child(n) ==
    CHOOSE m \in 1..n :
        /\ input[m]["child"] = input[n]["child"]
        /\ \A k \in 1..(m - 1) : input[k]["child"] # input[n]["child"]

-----------------------------------------------------------------------------
(* Where the rows with a foreign-key or tree-cycle failure are stored       *)

FailureTags == {"key:foreign", "tree:cycle"}

\* the cells of row i of step e that failed the foreign or the cycle check
failed_columns(e, i) ==
    {col \in Cols : \E m \in Range(log[e].rows[i][col].messages) : m \in FailureTags}

\* the stored row of T with the row number n holds the failing cell as NULL,
\* with valid = false, the original value and the messages in its meta
holds_failed_cell(T, n, col, cell) ==
    \E r \in T :
        /\ r.row_number = n
        /\ r.cells[col].value = NULL
        /\ ~r.cells[col].meta.null
        /\ ~r.cells[col].meta.valid
        /\ r.cells[col].meta.value = cell.value
        /\ \A m \in Range(cell.messages) : m \in Range(r.cells[col].meta.messages)

\* C17 as stated: every loaded row with a cell that fails the foreign-key
\* check or the tree-cycle check is stored in T_conflict and not in T, the
\* failing cell's meta holding valid = false, the original value and the
\* message.
C17_FailedRowsInConflict ==
    \A e \in Persisted :
        log[e].path \in {"first", "fallback"} =>
            \A i \in DOMAIN log[e].rows : \A col \in failed_columns(e, i) :
                LET n == log[e].chunk * CHUNK_SIZE + i
                IN /\ holds_failed_cell(db.conflict, n, col, log[e].rows[i][col])
                   /\ n \notin stored_row_numbers(db.main)

\* C17 (amended): a loaded row with a cell that fails the foreign-key check
\* or the tree-cycle check is stored in T, unless one of its cells in a
\* primary, unique or tree-child column is invalid, and only then is it
\* stored in T_conflict; in either table the failing cell is NULL and its
\* meta holds valid = false, the original value and the message.
C17_FailedRowsStayUnlessKeyInvalid ==
    \A e \in Persisted :
        log[e].path \in {"first", "fallback"} =>
            \A i \in DOMAIN log[e].rows : \A col \in failed_columns(e, i) :
                LET n == log[e].chunk * CHUNK_SIZE + i
                    row == log[e].rows[i]
                    key_invalid == \E k \in KeyColumns : ~row[k].valid
                IN IF key_invalid
                   THEN /\ holds_failed_cell(db.conflict, n, col, row[col])
                        /\ n \notin stored_row_numbers(db.main)
                   ELSE /\ holds_failed_cell(db.main, n, col, row[col])
                        /\ n \notin stored_row_numbers(db.conflict)

\* A load after which T holds a row whose src cell failed the foreign-key
\* check and a row whose parent cell failed the cycle check, and T_conflict
\* a row that failed the foreign-key check and repeats a key.
C17_Witness ==
    /\ \E r \in db.main : "key:foreign" \in Range(r.cells["src"].meta.messages)
    /\ \E r \in db.main : "tree:cycle" \in Range(r.cells["parent"].meta.messages)
    /\ \E r \in db.conflict :
          /\ "key:foreign" \in Range(r.cells["src"].meta.messages)
          /\ ~r.cells["child"].meta.null
          /\ ~r.cells["child"].meta.valid

-----------------------------------------------------------------------------
(* validate_row for an existing row                                         *)

\* the rows of the table besides the row the last call was about; the call
\* leaves them as they were
other_rows == {r \in db.main : r.row_number # last_op.row_number}

\* C19: validate_row for the existing row r gives a non-nulltype cell of a
\* primary, unique or tree-child column the uniqueness messages of the column
\* exactly when a row of the table with another row number holds the value:
\* the values the row r itself holds are never counted.
C19_UniqueCheckExcludesOwnRow ==
    last_op.kind = "update" =>
        \A col \in KeyColumns :
            LET cell == last_op.row[col]
                dup == \E r \in other_rows : r.cells[col].value = cell.value
            IN cell.nulltype = NoNulltype =>
                  /\ SelectSeq(cell.messages, LAMBDA m : m \in UniqueTags)
                        = (IF dup THEN unique_messages(col) ELSE <<>>)
                  /\ dup => ~cell.valid

\* An update that gives a stored row the key another row holds: the cell is
\* marked, and the row is stored with a NULL key.
C19_Witness ==
    /\ last_op.kind = "update"
    /\ last_op.status = "ok"
    /\ last_op.row_number \in DOMAIN input
    /\ input[last_op.row_number]["child"] \notin NonWordValues
    /\ input[last_op.row_number]["child"] # last_op.row["child"].value
    /\ \E r \in other_rows : r.cells["child"].value = last_op.row["child"].value
    /\ last_op.row["child"].messages = <<"key:primary", "tree:child-unique">>
    /\ \E r \in db.main : /\ r.row_number = last_op.row_number
                          /\ r.cells["child"].value = NULL
                          /\ r.cells["child"].meta.value = last_op.row["child"].value

-----------------------------------------------------------------------------
(* insert_new_row                                                           *)

\* the stored cell holds the value and the metadata of the given cell
holds_given_cell(sc, cell) ==
    /\ sc.value = (IF cell.valid /\ cell.nulltype = NoNulltype
                   THEN cell.value ELSE NULL)
    /\ (~cell.valid \/ cell.nulltype # NoNulltype \/ cell.messages # <<>>) =>
          /\ ~sc.meta.null
          /\ sc.meta.valid = cell.valid
          /\ sc.meta.nulltype = cell.nulltype
          /\ sc.meta.messages = cell.messages

\* C20: a call of insert_new_row that returns gives the row the number
\* MAX(row_number) + 1 of the table, or 1 when the table holds no row, and
\* after it the table holds a row with that number, the given cell values
\* and the given metadata.
C20_InsertedUnderNextRowNumber ==
    (last_op.kind = "insert" /\ last_op.status = "ok") =>
        /\ \A r \in other_rows : r.row_number < last_op.row_number
        /\ \/ other_rows = {} /\ last_op.row_number = 1
           \/ \E r \in other_rows : r.row_number + 1 = last_op.row_number
        /\ \E r \in db.main :
              /\ r.row_number = last_op.row_number
              /\ \A col \in Cols : holds_given_cell(r.cells[col], last_op.row[col])

-----------------------------------------------------------------------------
(* Errors of configure_and_load_db                                          *)

\* configure_and_load_db has ended with a ConfigError or a CycleError
startup_error ==
    \/ pc = "config_raised"
    \/ pc = "raised" /\ sort_result.status \in {"ConfigError", "CycleError"}

\* C12: when configure_and_load_db ends with a ConfigError or a CycleError,
\* no script has been executed against the database (no table or view
\* dropped or created) and no table has been loaded.
C12_NoWriteBeforeStartupError ==
    startup_error => (schema = <<>> /\ loaded = <<>>)

\* the table whose load raised
failed_table == sort_result.order[Len(loaded) + 1]

\* C13: when the load of a table raises, load_db has loaded every other
\* table of the order whose dependencies are all loaded.
C13_SiblingsStillLoaded ==
    pc = "load_raised" =>
        \A t \in Range(sort_result.order) \ {failed_table} :
            (\A e \in dep_edges(constraints) :
                (e[1] = t /\ e[2] # t) => e[2] \in Range(loaded))
               => t \in Range(loaded)

-----------------------------------------------------------------------------
(* The under check of the post-load step                                    *)

UnderTags == {"under:not-in-tree", "under:not-under"}

\* C14: for the column xyzzy with under(foobar.child, root), validate_under
\* reports nothing for a non-nulltype value v exactly when v is in the child
\* column of the tree and is the root or a descendant of the root along the
\* child -> parent edges; it reports under:not-in-tree when v is not in the
\* child column, and under:not-under when v is in the child column and is
\* neither the root nor below it.
C14_UnderIffRootOrDescendant ==
    pc = "ready" =>
        \A n \in DOMAIN under : \A r \in db.main :
            LET T == main_before(Len(log) + 1)
                v == input[r.row_number][under[n].column]
                in_tree == v \in child_values(T)
                below == v = under[n].value
                         \/ under[n].value \in ancestors(stored_edges(T), v)
                reported == {m \in Range(r.cells[under[n].column].meta.messages) :
                                m \in UnderTags}
            IN /\ (in_tree /\ below) <=> reported = {}
               /\ ~in_tree => reported = {"under:not-in-tree"}
               /\ (in_tree /\ ~below) => reported = {"under:not-under"}

-----------------------------------------------------------------------------
(* Intra-row validation                                                     *)

\* the columns with a nulltype, and the values the nulltype accepts
NulltypeColumns == {c \in Cols : column_config[c].nulltype # NULL}

accepted_as_null(c, value) ==
    /\ c \in NulltypeColumns
    /\ compiled_condition(datatype_config[column_config[c].nulltype].condition, value)

DatatypeTags == {"datatype:" \o d : d \in DOMAIN datatype_config}

\* the tag of rule n of the rule table: rules are numbered per when column
rule_tag(c, n) ==
    "rule:" \o c \o "-" \o ToString(Cardinality({m \in 1..n : rule[m].when_column = c}))

\* rule n of the rule table fails on the raw row: the when condition holds on
\* the when column and the then condition does not hold on the then column
holds_on(condition, c, value) ==
    CASE condition = "null"     -> accepted_as_null(c, value)
      [] condition = "not null" -> ~accepted_as_null(c, value)
      [] OTHER                  -> compiled_condition(condition, value)

rule_fails(n, raw) ==
    /\ holds_on(rule[n].when_condition, rule[n].when_column, raw[rule[n].when_column])
    /\ ~holds_on(rule[n].then_condition, rule[n].then_column, raw[rule[n].then_column])

failed_rule_tags(c, raw) ==
    {rule_tag(c, n) : n \in {m \in 1..Len(rule) :
                                rule[m].when_column = c /\ rule_fails(m, raw)}}

\* the rows and the cells validate_rows_intra has just produced
intra_cells == {<<i, c>> : i \in DOMAIN intra_results, c \in Cols}

intra_raw(i) == chunk_of(input, chunk_number)[i]

\* C21: when validate_rows_intra is done with a chunk, a cell of a column
\* with a nulltype whose value the nulltype accepts has its nulltype set, is
\* valid and has no message: neither a rule nor the datatype was applied.
C21_NulltypeCellUnchecked ==
    pc = "inter" =>
        \A ic \in intra_cells :
            LET cell == intra_results[ic[1]][ic[2]]
            IN accepted_as_null(ic[2], intra_raw(ic[1])[ic[2]]) =>
                  /\ cell.nulltype = column_config[ic[2]].nulltype
                  /\ cell.valid
                  /\ cell.messages = <<>>

\* C21 (as the code has it): a cell whose value the nulltype of its column
\* accepts has its nulltype set and is not checked against the datatype; the
\* rules of its column are still applied, so its messages are exactly the
\* tags of the failed rules and it is valid iff no rule failed.
C21_NulltypeCellSkipsDatatypeOnly ==
    pc = "inter" =>
        \A ic \in intra_cells :
            LET cell == intra_results[ic[1]][ic[2]]
                raw == intra_raw(ic[1])
            IN accepted_as_null(ic[2], raw[ic[2]]) =>
                  /\ cell.nulltype = column_config[ic[2]].nulltype
                  /\ Range(cell.messages) = failed_rule_tags(ic[2], raw)
                  /\ Len(cell.messages) = Cardinality(failed_rule_tags(ic[2], raw))
                  /\ cell.valid <=> cell.messages = <<>>

\* a nulltype cell with a failed rule next to one without, the value of both
\* rejected by the datatype of the column
C21_Witness ==
    /\ pc = "inter"
    /\ Len(intra_results) = 2
    /\ intra_results[1]["parent"].nulltype = "empty"
    /\ intra_results[1]["parent"].messages = <<"rule:parent-1">>
    /\ intra_results[2]["parent"].nulltype = "empty"
    /\ intra_results[2]["parent"].valid
    /\ ~compiled_condition(datatype_config[column_config["parent"].datatype].condition,
                           intra_results[2]["parent"].value)

\* the rules of the rule table that fail on row i of the validated chunk
failed_rules(i) == {n \in 1..Len(rule) : rule_fails(n, intra_raw(i))}

RuleTags == {rule_tag(rule[n].when_column, n) : n \in 1..Len(rule)}

\* C22: a failed rule is recorded on the then-column cell of the row, which
\* becomes invalid and carries rule:<column>-<n>; the when-column cell of the
\* row carries no message of the rule.
C22_RuleFailureOnThenCell ==
    pc = "inter" =>
        \A i \in DOMAIN intra_results : \A n \in failed_rules(i) :
            LET tag == rule_tag(rule[n].when_column, n)
                when_cell == intra_results[i][rule[n].when_column]
                then_cell == intra_results[i][rule[n].then_column]
            IN /\ ~then_cell.valid
               /\ tag \in Range(then_cell.messages)
               /\ tag \notin Range(when_cell.messages)

\* C22 (as the code has it): a failed rule is recorded on the when-column
\* cell of the row, which becomes invalid and carries rule:<column>-<n>, the
\* column being the when column; the then-column cell carries no message of
\* the rule, and no cell carries the message of a rule that did not fail.
C22_RuleFailureOnWhenCell ==
    pc = "inter" =>
        \A i \in DOMAIN intra_results :
            /\ \A n \in failed_rules(i) :
                  LET tag == rule_tag(rule[n].when_column, n)
                      when_cell == intra_results[i][rule[n].when_column]
                      then_cell == intra_results[i][rule[n].then_column]
                  IN /\ ~when_cell.valid
                     /\ tag \in Range(when_cell.messages)
                     /\ tag \notin Range(then_cell.messages)
            /\ \A c \in Cols :
                  Range(intra_results[i][c].messages) \cap RuleTags
                      = failed_rule_tags(c, intra_raw(i))

\* a rule has failed on a row whose then-column cell passes every check of
\* its own, next to a row where the rule holds
C22_Witness ==
    /\ pc = "inter"
    /\ Len(intra_results) = 2
    /\ failed_rules(1) # {}
    /\ \E n \in failed_rules(1) :
          /\ intra_results[1][rule[n].then_column].valid
          /\ intra_results[1][rule[n].then_column].messages = <<>>
          /\ ~intra_results[1][rule[n].when_column].valid
    /\ failed_rules(2) = {}
    /\ \E n \in 1..Len(rule) :
          holds_on(rule[n].when_condition, rule[n].when_column,
                   intra_raw(2)[rule[n].when_column])

\* the ancestors of a datatype, and how many ancestors a datatype has itself
\* (the fewer, the more general)
RECURSIVE datatype_ancestors(_)
datatype_ancestors(dt) ==
    LET p == datatype_config[dt].parent
    IN IF p = NULL THEN {} ELSE {p} \cup datatype_ancestors(p)

generality(dt) == Cardinality(datatype_ancestors(dt))

rejects(dt, value) ==
    /\ datatype_config[dt].condition # NULL
    /\ ~compiled_condition(datatype_config[dt].condition, value)

rejecting_ancestors(dt, value) == {a \in datatype_ancestors(dt) : rejects(a, value)}

datatype_messages(cell) == SelectSeq(cell.messages, LAMBDA m : m \in DatatypeTags)

datatype_of(tag) == CHOOSE d \in DOMAIN datatype_config : tag = "datatype:" \o d

\* the datatype messages of a cell of column c are those of a rejected value:
\* the rejecting ancestors, each once, the more general first, and then,
\* when final, the primary datatype
explained(cell, c, final) ==
    LET dt == column_config[c].datatype
        dm == datatype_messages(cell)
        n == Cardinality(rejecting_ancestors(dt, cell.value))
    IN /\ ~cell.valid
       /\ Len(dm) = n + (IF final THEN 1 ELSE 0)
       /\ {datatype_of(dm[k]) : k \in 1..n} = rejecting_ancestors(dt, cell.value)
       /\ \A j, k \in 1..n :
             j < k => generality(datatype_of(dm[j])) < generality(datatype_of(dm[k]))
       /\ final => dm[n + 1] = "datatype:" \o dt

\* the datatype left the cell as the rules had left it
untouched(cell) ==
    /\ datatype_messages(cell) = <<>>
    /\ cell.valid <=> cell.messages = <<>>

\* C24: a cell without nulltype whose primary datatype rejects the value is
\* invalid and carries one datatype:<name> message per rejecting ancestor,
\* from the most general to the most specific, and then always the message
\* datatype:<primary>; a cell whose primary datatype accepts it is unchanged.
C24_DatatypeMessagesAlwaysFinal ==
    pc = "inter" =>
        \A ic \in intra_cells :
            LET cell == intra_results[ic[1]][ic[2]]
            IN cell.nulltype = NoNulltype =>
                  IF rejects(column_config[ic[2]].datatype, cell.value)
                  THEN explained(cell, ic[2], TRUE)
                  ELSE untouched(cell)

\* C24 (as the code has it): the same, the final message datatype:<primary>
\* being appended when the primary datatype has a description, and only then.
C24_DatatypeMessagesFinalIfDescribed ==
    pc = "inter" =>
        \A ic \in intra_cells :
            LET cell == intra_results[ic[1]][ic[2]]
                dt == column_config[ic[2]].datatype
            IN cell.nulltype = NoNulltype =>
                  IF rejects(dt, cell.value)
                  THEN explained(cell, ic[2], datatype_config[dt].description # "")
                  ELSE untouched(cell)

\* one row with a cell that two ancestors and a primary datatype without
\* description reject, a cell that an ancestor and a primary datatype with a
\* description reject, and a cell the primary datatype accepts
C24_Witness ==
    /\ pc = "inter"
    /\ \E i \in DOMAIN intra_results : \E c, d, e \in Cols :
          LET r == intra_results[i] IN
          /\ r[c].nulltype = NoNulltype /\ r[d].nulltype = NoNulltype
          /\ Cardinality(rejecting_ancestors(column_config[c].datatype, r[c].value)) = 2
          /\ datatype_config[column_config[c].datatype].description = ""
          /\ Len(r[c].messages) = 2
          /\ Cardinality(rejecting_ancestors(column_config[d].datatype, r[d].value)) = 1
          /\ Len(r[d].messages) = 2
          /\ r[e].nulltype = NoNulltype /\ r[e].valid

-----------------------------------------------------------------------------
(* under keys and the trees they refer to                                   *)

\* some under key of the configuration names a table and a column that is the
\* child of no tree of that table, the table being another table or not
has_treeless_under(cons) ==
    \E a \in SortTables : \E i \in DOMAIN cons.under[a] :
        LET u == cons.under[a][i]
        IN \A j \in DOMAIN cons.tree[u.ttable] :
               cons.tree[u.ttable][j].child # u.tcolumn

\* C23: once verify_table_deps_and_sort has run on a configuration with an
\* under key whose tree table has no tree with the tree column as child, be
\* the tree table another table or the table of the key, it has raised
\* ConfigError: no table is loaded with such a key.
C23_TreelessUnderRefused ==
    (pc # "sort" /\ has_treeless_under(constraints)) =>
        /\ pc = "raised"
        /\ sort_result.status = "ConfigError"

-----------------------------------------------------------------------------
(* load_db: the tables in sorted order, each chunk by chunk, then its       *)
(* post-load checks, patches and commit                                     *)

MaxChunks == 1

\* what the database holds of each table: the chunks inserted, and whether
\* the post-load checks have run and their patches are applied
NoLoad == [t \in SortTables |-> [chunks |-> 0, post |-> FALSE]]

\* the table the loop of load_db is at
current_table == sort_result.order[Len(loaded) + 1]

\* the iterator over the chunks of the file is exhausted
\* (chunks_done_early: the loop over the chunks may end at any time)
chunks_done_early(t) == TRUE
chunks_done(t) == chunk_number = input[t]

InitLoadDb ==
    /\ constraints \in RunConstraints
    /\ input \in [SortTables -> 0..MaxChunks]
    /\ sort_result = NoSort
    /\ loaded = <<>>
    /\ schema = configured_schema(sort_table_list)
    /\ structure_errors = {}
    /\ pc = "sort"
    /\ chunk_number = 0
    /\ intra_results = <<>>
    /\ db = NoLoad
    /\ committed = NoLoad
    /\ log = <<>>
    /\ nops = 0
    /\ last_op = NoOp
    /\ origin = <<>>
    /\ num_cpus = 0
    /\ procs = <<>>
    /\ results = <<>>
    /\ proc_block = 0
    /\ proc_block_results = <<>>
    /\ finished = <<>>

\* one turn of the loop of validate_and_insert_chunks: the chunk is validated
\* and inserted, and committed if it went through the fallback path
LoadChunk ==
    /\ pc = "load"
    /\ Len(loaded) < Len(sort_result.order)
    /\ chunk_number < input[current_table]
    /\ chunk_number' = chunk_number + 1
    /\ db' = [db EXCEPT ![current_table].chunks = @ + 1]
    /\ committed' \in {committed, db'}
    /\ UNCHANGED <<sort_vars, input, intra_results, log, pc, op_vars, mp_vars>>

\* the rest of the turn of the loop of load_db, after the chunks of the table:
\* validate_tree_foreign_keys, validate_under, the UPDATEs and the commit
PostLoadTable ==
    /\ pc = "load"
    /\ Len(loaded) < Len(sort_result.order)
    /\ chunks_done(current_table)
    /\ db' = [db EXCEPT ![current_table].post = TRUE]
    /\ committed' = db'
    /\ loaded' = Append(loaded, current_table)
    /\ chunk_number' = 0
    /\ pc' = IF Len(loaded') = Len(sort_result.order) THEN "loaded" ELSE "load"
    /\ UNCHANGED <<constraints, sort_result, schema, structure_errors, input,
                   intra_results, log, op_vars, mp_vars>>

NextLoadDb ==
    \/ VerifyTableDepsAndSort
    \/ LoadChunk
    \/ PostLoadTable
    \/ LoadTableRaises

SpecLoadDb == InitLoadDb /\ [][NextLoadDb]_vars

\* a chunk of the table has been validated, or is the next thing load_db does
started(a) ==
    \/ db[a].chunks > 0
    \/ db[a].post
    \/ pc = "load" /\ Len(loaded) < Len(sort_result.order) /\ current_table = a

\* C25: the post-load checks of a table run only when every chunk of the table
\* is in the database, and when a table that depends on it (by a foreign key
\* or by an under key into another table) is started, its chunks and its
\* post-load patches are committed.
C25_PostLoadBetweenChunksAndDependants ==
    \A t \in SortTables :
        /\ db[t].post => db[t].chunks = input[t]
        /\ \A a \in SortTables :
              (<<a, t>> \in dep_edges(constraints) /\ started(a)) =>
                  /\ committed[t].post
                  /\ committed[t].chunks = input[t]

\* every table is loaded; one depends on another by a foreign key, one by an
\* under key, and the tables depended on and depending have chunks
C25_Witness ==
    /\ pc = "loaded"
    /\ \E a, t, b, u \in SortTables :
          /\ t \in foreign_tables(constraints, a)
          /\ b # u /\ \E i \in DOMAIN constraints.under[b] :
                          constraints.under[b][i].ttable = u
          /\ \A x \in {a, t, b, u} : input[x] > 0 /\ committed[x].chunks = input[x]

-----------------------------------------------------------------------------
(* The tree of the main table                                               *)

\* C26: whatever chunks have been loaded, the child -> parent edges of the
\* rows of the main table whose child and parent are both non-NULL form no
\* cycle, a row that is its own parent included, and no walk up the tree
\* fails to terminate.
C26_MainTreeAcyclic ==
    /\ \A e \in stored_edges(db.main) :
          e[1] \notin ancestors(stored_edges(db.main), e[1])
    /\ pc # "hung"

-----------------------------------------------------------------------------
(* The first main INSERT and the validation it stands for                   *)

\* what validate_rows_constraints would have made of the rows of step e
revalidated(e) == validate_rows_constraints(main_before(e), log[e].rows)

\* C27: when the database accepts the first main INSERT of a chunk,
\* validate_rows_constraints would have marked no cell of no row of the chunk,
\* the rows routed to the conflict table included, and the rows are stored as
\* the fallback path would have stored them: same routing, same metadata.
C27_FirstInsertAsFallback ==
    \A e \in Persisted :
        log[e].path = "first" =>
            /\ revalidated(e) = log[e].rows
            /\ \A r \in Range(make_inserts(revalidated(e), log[e].chunk).main) :
                  r.row_number \in stored_row_numbers(db.main)
            /\ \A r \in Range(make_inserts(revalidated(e), log[e].chunk).conflict) :
                  r.row_number \in stored_row_numbers(db.conflict)

-----------------------------------------------------------------------------
(* The post-load patches of a table whose parent column has the structure   *)
(* tree(child) under(foobar.child, b): two checks report on one column      *)

MaxRowsPatch == 2

\* config["constraints"]["under"][table] of that table: create_table appends
\* the key of parent before the key of xyzzy
under_of_parent ==
    <<[column |-> "parent", ttable |-> "foobar", tcolumn |-> "child", value |-> "b"]>>
    \o under

\* validate_under over the given under keys
RECURSIVE under_keys_from(_, _, _)
under_keys_from(T, ukeys, n) ==
    IF n > Len(ukeys) THEN <<>>
    ELSE LET hit == SelectSeq(sorted_rows(T),
                        LAMBDA r : under_reported(T, ukeys[n], r))
         IN [i \in 1..Len(hit) |-> under_record(T, ukeys[n], hit[i])]
            \o under_keys_from(T, ukeys, n + 1)

\* lines 529-543 of load_db for that table
post_load_structures(T) ==
    apply_records(T, validate_tree_foreign_keys(T)
                         \o under_keys_from(T, under_of_parent, 1), 1)

InitPatch ==
    /\ input \in SeqsUpTo(InputRows, MaxRowsPatch)
    /\ chunk_number = 0
    /\ intra_results = <<>>
    /\ db = EmptyDb
    /\ committed = EmptyDb
    /\ pc = IF Len(input) = 0 THEN "post" ELSE "intra"
    /\ log = <<>>
    /\ nops = 0
    /\ last_op = NoOp
    /\ origin = <<>>
    /\ constraints = [table_constraints EXCEPT !.under[table_name] = under_of_parent]
    /\ sort_result = NoSort
    /\ loaded = <<>>
    /\ schema = configured_schema(<<"prefix", table_name>>)
    /\ structure_errors = {}
    /\ num_cpus = 0
    /\ procs = <<>>
    /\ results = <<>>
    /\ proc_block = 0
    /\ proc_block_results = <<>>
    /\ finished = <<>>

\* the post-load checks, the UPDATEs and the commit
PostLoadStructures ==
    /\ pc = "post"
    /\ IF validate_under_hangs(db.main)
       THEN /\ pc' = "hung"
            /\ UNCHANGED <<db, committed>>
       ELSE /\ db' = [db EXCEPT !.main = post_load_structures(db.main)]
            /\ committed' = db'
            /\ pc' = "ready"
    /\ UNCHANGED <<load_vars, op_vars, sort_vars, mp_vars>>

NextPatch ==
    \/ ValidateRowsIntra
    \/ ValidateRowsInterAndInsert
    \/ PostLoadStructures

SpecPatch == InitPatch /\ [][NextPatch]_vars

\* the rows of the main table when the post-load checks start
before_post_load == main_before(Len(log) + 1)

\* the messages the post-load checks have for the cell of column c of row r
post_load_reports(T, c, r) ==
    {"tree:foreign" : i \in {j \in DOMAIN tree :
                                /\ tree[j].parent = c
                                /\ tree_foreign_reported(T, tree[j], r)}}
    \cup {IF under_in_tree(T, ukey, r)
          THEN "under:not-under" ELSE "under:not-in-tree" :
             ukey \in {u \in Range(constraints.under[table_name]) :
                          u.column = c /\ under_reported(T, u, r)}}

\* C28: when the post-load patches of the table are applied, the meta of
\* every cell holds the messages it held before and the message of each
\* post-load check that reported the cell, also when two checks reported it.
C28_PatchesKeepMessages ==
    pc = "ready" =>
        \A r \in before_post_load : \A s \in db.main :
            r.row_number = s.row_number =>
                \A c \in Cols :
                    Range(loaded_meta(s.cells[c]).messages)
                        = Range(loaded_meta(r.cells[c]).messages)
                          \cup post_load_reports(before_post_load, c, r)

-----------------------------------------------------------------------------
(* The table when child and parent have a datatype of SQL type INTEGER      *)
(* (integer: parent word, condition match(/-?\d+/)): the database compares  *)
(* the values of child as integers, the validation compares them as text    *)

\* the value an INTEGER column holds for a text that is an integer, written
\* in decimal
sql_integer(value) == IF value = "01" THEN "1" ELSE value

\* validate_rows_constraints on that table: the query of the unique check
\* compares the bound text to the column as an integer, the look through
\* prev_results compares text to text
RECURSIVE integer_rows_constraints(_, _, _, _)
integer_rows_constraints(T, rows, i, result_rows) ==
    IF i > Len(rows) THEN result_rows
    ELSE LET row == validate_row_constraints(T, rows[i], result_rows)
             cell == rows[i]["child"]
             duplicate ==
                 \/ \E j \in DOMAIN result_rows :
                       /\ result_rows[j]["child"].value = cell.value
                       /\ result_rows[j]["child"].valid
                 \/ \E r \in T : r.cells["child"].value = sql_integer(cell.value)
             marked == IF duplicate
                       THEN add_message(add_message(cell, "key:primary"),
                                        "tree:child-unique")
                       ELSE cell
         IN integer_rows_constraints(
                T, rows, i + 1,
                Append(result_rows, [row EXCEPT !["child"] = marked]))

\* validate_rows_inter_and_insert on that table: the rows of the main INSERT
\* hold child as the integer of its text
integer_inter_and_insert(dbs, intra_validated_rows, chunk_num) ==
    LET as_integer(ins) ==
            [ins EXCEPT !.main =
                [k \in DOMAIN ins.main |->
                    [ins.main[k] EXCEPT !.cells["child"].value = sql_integer(@)]]]
        trees == validate_rows_trees(dbs.main, intra_validated_rows)
        ins1 == as_integer(make_inserts(trees.rows, chunk_num))
        cons == integer_rows_constraints(dbs.main, trees.rows, 1, <<>>)
        ins2 == as_integer(make_inserts(cons, chunk_num))
    IN IF insert_accepted(dbs.main, ins1.main)
       THEN [path |-> "first",
             db |-> [dbs EXCEPT !.main = @ \cup Range(ins1.main)],
             commit |-> FALSE, rows |-> trees.rows, inserts |-> ins1]
       ELSE IF insert_accepted(dbs.main, ins2.main)
       THEN [path |-> "fallback",
             db |-> [main |-> dbs.main \cup Range(ins2.main),
                     conflict |-> dbs.conflict \cup Range(ins2.conflict)],
             commit |-> TRUE, rows |-> cons, inserts |-> ins2]
       ELSE [path |-> "error", db |-> dbs, commit |-> FALSE,
             rows |-> cons, inserts |-> ins2]

\* the rows are rows of integers without parent: validate_rows_intra makes of
\* them what it makes of the same rows of words
InitInteger ==
    /\ input \in SeqsUpTo({[child |-> c, parent |-> "", xyzzy |-> "a", src |-> "p"] :
                              c \in {"1", "01", "2"}}, MaxRows)
    /\ chunk_number = 0
    /\ intra_results = <<>>
    /\ db = EmptyDb
    /\ committed = EmptyDb
    /\ pc = IF Len(input) = 0 THEN "post" ELSE "intra"
    /\ log = <<>>
    /\ nops = 0
    /\ last_op = NoOp
    /\ origin = <<>>
    /\ constraints = table_constraints
    /\ sort_result = NoSort
    /\ loaded = <<>>
    /\ schema = configured_schema(<<"prefix", table_name>>)
    /\ structure_errors = {}
    /\ num_cpus = 0
    /\ procs = <<>>
    /\ results = <<>>
    /\ proc_block = 0
    /\ proc_block_results = <<>>
    /\ finished = <<>>

ValidateRowsInterAndInsertInteger ==
    /\ pc = "inter"
    /\ LET res == integer_inter_and_insert(db, intra_results, chunk_number)
       IN /\ db' = res.db
          /\ committed' = IF res.commit THEN res.db ELSE committed
          /\ log' = Append(log, [chunk |-> chunk_number, path |-> res.path,
                                 rows |-> res.rows, inserts |-> res.inserts])
          /\ pc' = IF res.path = "error" THEN res.path
                   ELSE IF chunk_number + 1 < NumChunks(input) THEN "intra"
                   ELSE "post"
          /\ chunk_number' = IF res.path = "error"
                             THEN chunk_number ELSE chunk_number + 1
    /\ intra_results' = <<>>
    /\ UNCHANGED <<input, op_vars, sort_vars, mp_vars>>

NextInteger ==
    \/ ValidateRowsIntra
    \/ ValidateRowsInterAndInsertInteger
    \/ PostLoad

SpecInteger == InitInteger /\ [][NextInteger]_vars

\* C29: when the database has refused the first main INSERT of a chunk, it
\* accepts the main INSERT made of the rows validate_rows_constraints returns:
\* no chunk ends with a second integrity error.
C29_FallbackInsertAccepted ==
    /\ pc # "error"
    /\ \A e \in DOMAIN log : log[e].path # "error"

-----------------------------------------------------------------------------
(* Row numbers of the main table and of the conflict table                  *)

\* C30: after a bulk load and whatever calls of insert_new_row, no row of the
\* main table has the row number of a row of the conflict table: the number
\* insert_new_row allocates is not in use in either table.
C30_RowNumbersUniqueAcrossTables ==
    /\ stored_row_numbers(db.main) \cap stored_row_numbers(db.conflict) = {}
    /\ \A r \in db.main : \A s \in db.main :
          r.row_number = s.row_number => r = s

====
